---- MODULE Spec2Model ----
(***************************************************************************)
(* Model of the audio pipeline of simple-audio-editor                      *)
(* (utils/audioProcessing: processAudio, applyEaseCurve, audioBufferToWav, *)
(* extractWaveformPeaks, pickOpusMimeType, audioBufferToOpus, exportAudio) *)
(* and of the editor component AudioEditorApp with its controls.           *)
(*                                                                         *)
(* Numbers.  Sample and gain values are fixed-point integers in units of   *)
(* 1/Scale (Scale = 1000, so the code's epsilon 0.001 is the unit 1).      *)
(* Times are integers in ticks of 1/(sampleRate * Sub) seconds: frame i    *)
(* of a buffer is at tick i * Sub, and floor(t * sampleRate) is t \div Sub.*)
(* Divisions round towards minus infinity (\div), the model's stand-in for *)
(* floating-point rounding; the properties below are stated at points      *)
(* where the value is exact.                                               *)
(*                                                                         *)
(* The Web Audio objects the code drives (AudioParam automation timeline,  *)
(* AudioBufferSourceNode, OfflineAudioContext) are modelled by what the    *)
(* Web Audio API specifies for the calls the code makes.                   *)
(***************************************************************************)
EXTENDS Integers, Sequences, FiniteSets, TLC

\* ------------------------------------------------------------------ bounds
MaxLen == 2          \* frames of a source buffer
Sub == 2             \* ticks per sample frame (sub-frame time resolution)
MaxFade == 5         \* largest configured fade duration, in ticks
MaxWavFrames == 3    \* frames of a buffer passed to audioBufferToWav
MaxPattern == 6      \* sample patterns of those buffers
TRes == 12           \* resolution of the progress value t = k / TRes
MaxPeakLen == 3      \* samples of a buffer passed to extractWaveformPeaks
MaxBuckets == 4      \* largest bucket count asked for
MaxOpusDuration == 2 \* longest buffer passed to exportAudio, in seconds
MaxAppDuration == 5  \* longest file loaded in the editor, in half slider steps
MaxPreviews == 3     \* preview renders started in one run
MaxExports == 2      \* exports started in one run
MaxFormatSeconds == 61  \* longest time formatted, in seconds
MaxCalls == 2        \* calls made on one source buffer

\* --------------------------------------------------------- program constants
Scale == 1000        \* fixed-point unit: 1/Scale = the epsilon 0.001
Epsilon == 1         \* 0.001 in units of 1/Scale
steps == 100         \* samples of a materialised fade curve
bitsPerSample == 16  \* audioBufferToWav
headerLength == 44   \* audioBufferToWav
SliderStep == 20     \* the sliders' step of 0.01 s, in editor time units of 1/2000 s

EaseCurve == {"linear", "exponential", "logarithmic", "sCurve"}

\* channel counts of the buffers: mono and stereo
Channels == {1, 2}

Min(a, b) == IF a <= b THEN a ELSE b
Max(a, b) == IF a >= b THEN a ELSE b

\* floor(sqrt(n)) by bisection on [lo, hi], lo*lo <= n < (hi+1)*(hi+1)
RECURSIVE ISqrtIn(_, _, _)
ISqrtIn(n, lo, hi) ==
  IF lo >= hi THEN lo
  ELSE LET mid == (lo + hi + 1) \div 2
       IN IF mid * mid <= n THEN ISqrtIn(n, mid, hi) ELSE ISqrtIn(n, lo, mid - 1)

ISqrt(n) == ISqrtIn(n, 0, 46340)

\* ------------------------------------------------------------ applyEaseCurve
\* mutant: the smoothstep polynomial with its coefficients exchanged
applyEaseCurve_BadSmoothstep(k, den, curve) ==
  CASE curve = "exponential" -> (k * k * Scale) \div (den * den)
    [] curve = "logarithmic" -> ISqrt((k * Scale * Scale) \div den)
    [] curve = "sCurve" -> (k * k * (2 * den - 3 * k) * Scale) \div (den * den * den)
    [] OTHER -> (k * Scale) \div den

\* applyEaseCurve(t, curve) for t = k / den, result in units of 1/Scale.
applyEaseCurve(k, den, curve) ==
  CASE curve = "exponential" -> (k * k * Scale) \div (den * den)
    [] curve = "logarithmic" -> ISqrt((k * Scale * Scale) \div den)
    [] curve = "sCurve" -> (k * k * (3 * den - 2 * k) * Scale) \div (den * den * den)
    [] OTHER -> (k * Scale) \div den

\* --------------------------------------------------- AudioParam automation
\* gainNode.gain: the automation events, ordered by time (events of equal
\* time in call order), and the exception a call has thrown ("" for none).
Event(type, value, time, duration, curve, dir) ==
  [type |-> type, value |-> value, time |-> time, duration |-> duration,
   curve |-> curve, dir |-> dir]

NewParam == [events |-> << >>, error |-> ""]

\* t lies inside the interval [T, T + D) of a scheduled value curve
InCurve(events, t) ==
  \E i \in 1..Len(events) :
    /\ events[i].type = "setValueCurve"
    /\ events[i].time <= t
    /\ t < events[i].time + events[i].duration

\* a new event goes after every event whose time is <= its own
InsertEvent(events, e) ==
  LET n == Cardinality({i \in 1..Len(events) : events[i].time <= e.time})
  IN SubSeq(events, 1, n) \o << e >> \o SubSeq(events, n + 1, Len(events))

setValueAtTime(p, value, startTime) ==
  IF p.error # "" THEN p
  ELSE IF InCurve(p.events, startTime) THEN [p EXCEPT !.error = "NotSupportedError"]
  ELSE [p EXCEPT !.events =
          InsertEvent(@, Event("setValue", value, startTime, 0, "linear", "in"))]

linearRampToValueAtTime(p, value, endTime) ==
  IF p.error # "" THEN p
  ELSE IF InCurve(p.events, endTime) THEN [p EXCEPT !.error = "NotSupportedError"]
  ELSE [p EXCEPT !.events =
          InsertEvent(@, Event("linearRamp", value, endTime, 0, "linear", "in"))]

\* an exponential ramp to the value 0 is a RangeError
exponentialRampToValueAtTime(p, value, endTime) ==
  IF p.error # "" THEN p
  ELSE IF value = 0 THEN [p EXCEPT !.error = "RangeError"]
  ELSE IF InCurve(p.events, endTime) THEN [p EXCEPT !.error = "NotSupportedError"]
  ELSE [p EXCEPT !.events =
          InsertEvent(@, Event("exponentialRamp", value, endTime, 0, "linear", "in"))]

\* curveValues[i] of processAudio, i in 0..steps-1: the eased progress at
\* t = i/(steps-1) (fade-in) or 1 - t (fade-out), times volume
curveValues(i, curve, dir, volume) ==
  LET k == IF dir = "in" THEN i ELSE (steps - 1) - i
  IN (applyEaseCurve(k, steps - 1, curve) * volume) \div Scale

\* a value curve may start at the time of another event, but no event may lie
\* strictly inside (T, T + D), and T may not lie inside another curve
setValueCurveAtTime(p, volume, curve, dir, startTime, duration) ==
  IF p.error # "" THEN p
  ELSE IF duration <= 0 THEN [p EXCEPT !.error = "RangeError"]
  ELSE IF \/ InCurve(p.events, startTime)
          \/ \E i \in 1..Len(p.events) :
               /\ p.events[i].time > startTime
               /\ p.events[i].time < startTime + duration
       THEN [p EXCEPT !.error = "NotSupportedError"]
  ELSE [p EXCEPT !.events =
          InsertEvent(@, Event("setValueCurve", volume, startTime, duration, curve, dir))]

\* value of a scheduled curve e at time t, linear interpolation between its samples
CurveValueAt(e, t) ==
  IF t >= e.time + e.duration THEN curveValues(steps - 1, e.curve, e.dir, e.value)
  ELSE LET x == (steps - 1) * (t - e.time)
           k == x \div e.duration
           r == x % e.duration
           v0 == curveValues(k, e.curve, e.dir, e.value)
           v1 == curveValues(k + 1, e.curve, e.dir, e.value)
       IN v0 + ((v1 - v0) * r) \div e.duration

\* v0 * (v1/v0)^(p/q) for v0, v1 > 0 and 0 <= p < q, by bisection of the
\* exponent: the geometric mean ISqrt(lo * hi) halves the interval
RECURSIVE GeoInterp(_, _, _, _, _)
GeoInterp(lo, hi, p, q, depth) ==
  IF p = 0 \/ depth = 0 THEN lo
  ELSE LET mid == ISqrt(lo * hi)
       IN IF 2 * p < q THEN GeoInterp(lo, mid, 2 * p, q, depth - 1)
          ELSE GeoInterp(mid, hi, 2 * p - q, q, depth - 1)

LinearRampValue(V0, T0, V1, T1, t) ==
  V0 + ((V1 - V0) * (t - T0)) \div (T1 - T0)

\* an exponential ramp holds V0 when V0 is 0 or V0 and V1 have opposite signs;
\* otherwise V0 * (V1/V0)^((t-T0)/(T1-T0)), computed with 4 guard bits
ExponentialRampValue(V0, T0, V1, T1, t) ==
  IF V0 = 0 \/ V0 * V1 < 0 THEN V0
  ELSE IF t = T0 THEN V0
  ELSE IF V0 > 0 THEN GeoInterp(16 * V0, 16 * V1, t - T0, T1 - T0, 12) \div 16
  ELSE 0 - (GeoInterp(0 - 16 * V0, 0 - 16 * V1, t - T0, T1 - T0, 12) \div 16)

EventEndTime(e) == IF e.type = "setValueCurve" THEN e.time + e.duration ELSE e.time

EventEndValue(e) ==
  IF e.type = "setValueCurve" THEN curveValues(steps - 1, e.curve, e.dir, e.value)
  ELSE e.value

\* the value of the parameter at time t: the last event at or before t holds,
\* unless the event after it is a ramp, which interpolates towards its end
ValueAt(events, t) ==
  LET n == Cardinality({i \in 1..Len(events) : events[i].time <= t})
  IN IF n = 0 THEN Scale
     ELSE LET prev == events[n]
              T0 == EventEndTime(prev)
              V0 == EventEndValue(prev)
          IN IF prev.type = "setValueCurve" /\ t < T0 THEN CurveValueAt(prev, t)
             ELSE IF n < Len(events) /\ events[n + 1].type = "linearRamp"
               THEN LinearRampValue(V0, T0, events[n + 1].value, events[n + 1].time, t)
             ELSE IF n < Len(events) /\ events[n + 1].type = "exponentialRamp"
               THEN ExponentialRampValue(V0, T0, events[n + 1].value, events[n + 1].time, t)
             ELSE V0

\* ------------------------------------------------------------------ inputs
NoFade == [enabled |-> FALSE, duration |-> 1, curve |-> "linear"]

\* no fade, shorter than a frame, and two longer ones
FadeDurations == {0, 1, MaxFade - 2, MaxFade}

Fades ==
  {NoFade} \cup [enabled : {TRUE}, duration : FadeDurations, curve : EaseCurve]

\* 0, 0.5, 1 (the default) and 2.5 (above the slider's maximum of 2)
Volumes == {0, Scale \div 2, Scale, (5 * Scale) \div 2}

\* sample of channel ch (1-based) at frame i (0-based): distinct per frame and
\* channel, some outside [-1, 1]
SampleAt(ch, i) == (((3 * i + 2 * ch) % 7) - 3) * (Scale \div 2)

MkBuffer(sampleRate, channels, length) ==
  [sampleRate |-> sampleRate, numberOfChannels |-> channels, length |-> length,
   data |-> [ch \in 1..channels |-> [i \in 1..length |-> SampleAt(ch, i - 1)]]]

Sources ==
  {MkBuffer(IF n % 2 = 1 THEN 8000 ELSE 44100, n, len) : n \in Channels, len \in 1..MaxLen}

\* buffer.duration in ticks
Duration(buffer) == buffer.length * Sub

NoBuffer == [sampleRate |-> 0, numberOfChannels |-> 0, length |-> 0, data |-> << >>]

VARIABLES
  sourceBuffer,   \* the AudioBuffer passed to processAudio
  settings,       \* the AudioEditSettings passed to processAudio
  pc,             \* position in processAudio
  offlineCtx,     \* the OfflineAudioContext, once constructed
  gain,           \* gainNode.gain: its automation events and thrown error
  result,         \* the returned promise: pending, fulfilled or rejected
  ease,           \* a call of applyEaseCurve: its arguments and results
  wav,            \* a call of audioBufferToWav: its argument and the bytes
  peaks,          \* a call of extractWaveformPeaks: its arguments and results
  opus,           \* a call of exportAudio: the host, the recorder, the timer, the promises
  app,            \* AudioEditorApp: its state, its refs, its pending previews and its sources
  heap,           \* the AudioBuffers allocated so far, the source first, and the last call made
  fmt             \* the call of formatTime

vars == << sourceBuffer, settings, pc, offlineCtx, gain, result, ease, wav, peaks, opus, app, heap, fmt >>

NoEase == [den |-> 1, t1 |-> 0, t2 |-> 0, curve |-> "linear", done |-> FALSE,
           v1 |-> 0, v2 |-> 0]

NoWav == [buffer |-> NoBuffer, done |-> FALSE, bytes |-> << >>]

NoPeaks == [buffer |-> NoBuffer, numBuckets |-> 0, done |-> FALSE,
            positive |-> << >>, negative |-> << >>, reads |-> {}]

NoCall == [fn |-> "", input |-> 0, output |-> 0, error |-> ""]

NoHeap == [buffers |-> << >>, original |-> NoBuffer, calls |-> 0, last |-> NoCall]

\* promises of a Blob
BlobPending == [status |-> "pending", error |-> "", blob |-> [size |-> 0, type |-> ""]]
BlobRejected(e) == [status |-> "rejected", error |-> e, blob |-> [size |-> 0, type |-> ""]]
BlobFulfilled(b) == [status |-> "fulfilled", error |-> "", blob |-> b]

\* the editor before a file is loaded: settings = null, audioData = null
NoSettings == [cropStart |-> 0, cropEnd |-> 0, volume |-> 0, fadeIn |-> NoFade,
               fadeOut |-> NoFade, null |-> TRUE]

NoApp ==
  [audioData |-> 0, settings |-> NoSettings, isLoading |-> FALSE,
   isPlaying |-> FALSE, playbackPosition |-> 0, audioCtx |-> "none",
   sourceNodeRef |-> 0, animFrameRef |-> 0, framePending |-> FALSE,
   playbackOffsetRef |-> 0,
   previews |-> << >>, sources |-> << >>,
   isOpusLoading |-> FALSE, isWavLoading |-> FALSE, exports |-> << >>]

\* seconds is held in milliseconds, text as a sequence of characters
NoFormat == [seconds |-> 0, text |-> << >>, done |-> FALSE]

NoTimer == [armed |-> FALSE, deadline |-> 0]

NoOpus ==
  [format |-> "wav", supported |-> {}, duration |-> 0, pc |-> "idle",
   clock |-> 0, ctx |-> "none", mimeType |-> "", recorder |-> "none",
   stopTask |-> FALSE, chunks |-> << >>, recordingDone |-> BlobPending,
   timer |-> NoTimer, sourceStarted |-> FALSE, ended |-> FALSE,
   errored |-> FALSE, forced |-> FALSE, stopOnInactive |-> FALSE,
   lateTimer |-> FALSE, outcome |-> BlobPending,
   result |-> BlobPending, extension |-> ""]

\* ------------------------------------------------------------ processAudio
startSample(s) == s.cropStart \div Sub
endSample(s) == s.cropEnd \div Sub
\* mutant: the difference of the times is quantised, not the two end points
croppedLength_DiffQuantised(s) == (s.cropEnd - s.cropStart) \div Sub

croppedLength(s) == endSample(s) - startSample(s)

\* mutant: a zero-length region passes the check
EmptyRegion_NegativeOnly(s) == croppedLength(s) < 0

EmptyRegion(s) == croppedLength(s) <= 0

NewOfflineAudioContext(channels, length, sampleRate) ==
  [created |-> TRUE, numberOfChannels |-> channels, length |-> length,
   sampleRate |-> sampleRate]

NoContext == [created |-> FALSE, numberOfChannels |-> 0, length |-> 0, sampleRate |-> 0]

\* croppedLength / sampleRate, in ticks
totalDuration(s) == croppedLength(s) * Sub

\* mutant: the fade-in is not clipped to the cropped region
fadeInDuration_Unclipped(s) == s.fadeIn.duration

fadeInDuration(s) == Min(s.fadeIn.duration, totalDuration(s))
fadeOutDuration(s) == Min(s.fadeOut.duration, totalDuration(s))
fadeOutStart(s) == totalDuration(s) - fadeOutDuration(s)

FadeInEnabled(s) == s.fadeIn.enabled /\ s.fadeIn.duration > 0
FadeOutEnabled(s) == s.fadeOut.enabled /\ s.fadeOut.duration > 0

\* mutant: the exponential fade-in starts from the 0 set before it
FadeInRamp_NoEpsilon(p, s) ==
  CASE s.fadeIn.curve = "exponential" ->
         exponentialRampToValueAtTime(p, s.volume, fadeInDuration(s))
    [] s.fadeIn.curve \in {"logarithmic", "sCurve"} ->
         setValueCurveAtTime(p, s.volume, s.fadeIn.curve, "in", 0, fadeInDuration(s))
    [] OTHER -> linearRampToValueAtTime(p, s.volume, fadeInDuration(s))

FadeInRamp(p, s) ==
  CASE s.fadeIn.curve = "exponential" ->
         exponentialRampToValueAtTime(
           setValueAtTime(p, Epsilon, 0), s.volume, fadeInDuration(s))
    [] s.fadeIn.curve \in {"logarithmic", "sCurve"} ->
         setValueCurveAtTime(p, s.volume, s.fadeIn.curve, "in", 0, fadeInDuration(s))
    [] OTHER -> linearRampToValueAtTime(p, s.volume, fadeInDuration(s))

FadeInAutomation(p, s) ==
  IF FadeInEnabled(s) THEN FadeInRamp(setValueAtTime(p, 0, 0), s) ELSE p

FadeOutRamp(p, s) ==
  CASE s.fadeOut.curve = "exponential" ->
         exponentialRampToValueAtTime(
           setValueAtTime(p, s.volume, fadeOutStart(s)), Epsilon, totalDuration(s))
    [] s.fadeOut.curve \in {"logarithmic", "sCurve"} ->
         setValueCurveAtTime(p, s.volume, s.fadeOut.curve, "out",
                             fadeOutStart(s), fadeOutDuration(s))
    [] OTHER ->
         linearRampToValueAtTime(
           setValueAtTime(p, s.volume, fadeOutStart(s)), 0, totalDuration(s))

FadeOutAutomation(p, s) ==
  IF FadeOutEnabled(s) THEN FadeOutRamp(p, s) ELSE p

Pending == [status |-> "pending", error |-> "", buffer |-> NoBuffer]
Rejected(e) == [status |-> "rejected", error |-> e, buffer |-> NoBuffer]
Fulfilled(b) == [status |-> "fulfilled", error |-> "", buffer |-> b]

\* source.start(0, cropStart, cropEnd - cropStart): the first frame played.  The
\* offset is passed in seconds, not as startSample.  When it falls on a sample
\* frame that frame is played; when it falls between two frames the Web Audio
\* API leaves the choice to the platform (it rounds the offset to a frame or
\* interpolates between the neighbours), so either neighbour may come first.
PlayStarts(s) ==
  IF s.cropStart % Sub = 0 THEN {s.cropStart \div Sub}
  ELSE {s.cropStart \div Sub, (s.cropStart \div Sub) + 1}

\* frame k of the source as played: silence past the end of the buffer or of
\* the played duration
Played(buffer, s, ch, k) ==
  IF k < buffer.length /\ k * Sub < s.cropEnd THEN buffer.data[ch][k + 1] ELSE 0

\* the gain applied to output frame i
GainAtFrame(events, i) == ValueAt(events, i * Sub)

RenderedBuffer(buffer, s, ctx, events, first) ==
  [sampleRate |-> ctx.sampleRate, numberOfChannels |-> ctx.numberOfChannels,
   length |-> ctx.length,
   data |-> [ch \in 1..ctx.numberOfChannels |->
              [j \in 1..ctx.length |->
                (Played(buffer, s, ch, first + j - 1) * GainAtFrame(events, j - 1))
                  \div Scale]]]

Init ==
  /\ sourceBuffer \in Sources
  /\ settings \in [cropStart : 0..(MaxLen * Sub), cropEnd : 0..(MaxLen * Sub),
                   volume : Volumes, fadeIn : Fades, fadeOut : Fades]
  /\ settings.cropStart <= Duration(sourceBuffer)
  /\ settings.cropEnd <= Duration(sourceBuffer)
  /\ pc = "start"
  /\ offlineCtx = NoContext
  /\ gain = NewParam
  /\ result = Pending
  /\ ease = NoEase
  /\ wav = NoWav
  /\ peaks = NoPeaks
  /\ opus = NoOpus
  /\ app = NoApp
  /\ heap = NoHeap
  /\ fmt = NoFormat

\* lines 67-77: quantise the crop region, reject an empty one
Validate ==
  /\ pc = "start"
  /\ IF EmptyRegion(settings)
       THEN /\ result' = Rejected("Crop region is empty")
            /\ pc' = "done"
       ELSE /\ result' = result
            /\ pc' = "context"
  /\ UNCHANGED << sourceBuffer, settings, offlineCtx, gain, ease, wav, peaks, opus, app, heap, fmt >>

\* lines 79-91: the offline context, the source node and the gain node
CreateContext ==
  /\ pc = "context"
  /\ offlineCtx' = NewOfflineAudioContext(sourceBuffer.numberOfChannels,
                                          croppedLength(settings),
                                          sourceBuffer.sampleRate)
  /\ gain' = setValueAtTime(NewParam, settings.volume, 0)
  /\ pc' = "fadeIn"
  /\ UNCHANGED << sourceBuffer, settings, result, ease, wav, peaks, opus, app, heap, fmt >>

\* lines 93-120
ApplyFadeIn ==
  /\ pc = "fadeIn"
  /\ gain' = FadeInAutomation(gain, settings)
  /\ IF gain'.error # ""
       THEN result' = Rejected(gain'.error) /\ pc' = "done"
       ELSE result' = result /\ pc' = "fadeOut"
  /\ UNCHANGED << sourceBuffer, settings, offlineCtx, ease, wav, peaks, opus, app, heap, fmt >>

\* lines 122-153
ApplyFadeOut ==
  /\ pc = "fadeOut"
  /\ gain' = FadeOutAutomation(gain, settings)
  /\ IF gain'.error # ""
       THEN result' = Rejected(gain'.error) /\ pc' = "done"
       ELSE result' = result /\ pc' = "render"
  /\ UNCHANGED << sourceBuffer, settings, offlineCtx, ease, wav, peaks, opus, app, heap, fmt >>

\* lines 155-160: connect, start the source, render
Render ==
  /\ pc = "render"
  /\ \E first \in PlayStarts(settings) :
       result' = Fulfilled(RenderedBuffer(sourceBuffer, settings, offlineCtx,
                                          gain.events, first))
  /\ pc' = "done"
  /\ UNCHANGED << sourceBuffer, settings, offlineCtx, gain, ease, wav, peaks, opus, app, heap, fmt >>

Next == Validate \/ CreateContext \/ ApplyFadeIn \/ ApplyFadeOut \/ Render

Spec == Init /\ [][Next]_vars

\* ------------------------------------------- applyEaseCurve as a pure function
\* the progress values t1 = ease.t1 / ease.den and t2 = ease.t2 / ease.den, at the
\* resolution TRes and at the resolution steps - 1 of the materialised curves
InitEase ==
  /\ ease \in [den : {TRes, steps - 1}, t1 : 0..Max(TRes, steps - 1),
               t2 : 0..Max(TRes, steps - 1), curve : EaseCurve,
               done : {FALSE}, v1 : {0}, v2 : {0}]
  /\ ease.t1 <= ease.den
  /\ ease.t2 <= ease.den
  /\ sourceBuffer = NoBuffer
  /\ settings = [cropStart |-> 0, cropEnd |-> 0, volume |-> Scale,
                 fadeIn |-> NoFade, fadeOut |-> NoFade]
  /\ pc = "idle"
  /\ offlineCtx = NoContext
  /\ gain = NewParam
  /\ result = Pending
  /\ wav = NoWav
  /\ peaks = NoPeaks
  /\ opus = NoOpus
  /\ app = NoApp
  /\ heap = NoHeap
  /\ fmt = NoFormat

Evaluate ==
  /\ ~ease.done
  /\ ease' = [ease EXCEPT !.done = TRUE,
                          !.v1 = applyEaseCurve(ease.t1, ease.den, ease.curve),
                          !.v2 = applyEaseCurve(ease.t2, ease.den, ease.curve)]
  /\ UNCHANGED << sourceBuffer, settings, pc, offlineCtx, gain, result, wav, peaks, opus, app, heap, fmt >>

SpecEase == InitEase /\ [][Evaluate]_vars

\* ---------------------------------------------------------- audioBufferToWav
\* the DataView over the ArrayBuffer: bytes 1..totalLength hold offsets 0..
Byte(v, n) == (v \div (256 ^ n)) % 256

setUint8(view, offset, v) == [view EXCEPT ![offset + 1] = v % 256]

\* little-endian writes; the value is taken modulo 2^16
setUint16(view, offset, v) ==
  [view EXCEPT ![offset + 1] = Byte(v % 65536, 0), ![offset + 2] = Byte(v % 65536, 1)]

setUint32(view, offset, v) ==
  [view EXCEPT ![offset + 1] = Byte(v, 0), ![offset + 2] = Byte(v, 1),
               ![offset + 3] = Byte(v, 2), ![offset + 4] = Byte(v, 3)]

\* setInt16 stores the two's complement of the value modulo 2^16
setInt16(view, offset, v) == setUint16(view, offset, v % 65536)

RECURSIVE writeString(_, _, _)
writeString(view, offset, str) ==
  IF str = << >> THEN view
  ELSE writeString(setUint8(view, offset, Head(str)), offset + 1, Tail(str))

bytesPerSample == bitsPerSample \div 8

\* mutant: the block alignment of a mono stream, whatever the channel count
blockAlign_Mono(channels) == bytesPerSample

blockAlign(channels) == channels * bytesPerSample

dataLength(buffer) == buffer.length * blockAlign(buffer.numberOfChannels)
totalLength(buffer) == headerLength + dataLength(buffer)

\* lines 223-236
WavHeader(view, buffer) ==
  \* the four chunk tags are written as their character codes
  LET v1 == writeString(view, 0, << 82, 73, 70, 70 >>)
      v2 == setUint32(v1, 4, totalLength(buffer) - 8)
      v3 == writeString(v2, 8, << 87, 65, 86, 69 >>)
      v4 == writeString(v3, 12, << 102, 109, 116, 32 >>)
      v5 == setUint32(v4, 16, 16)
      v6 == setUint16(v5, 20, 1)
      v7 == setUint16(v6, 22, buffer.numberOfChannels)
      v8 == setUint32(v7, 24, buffer.sampleRate)
      v9 == setUint32(v8, 28, buffer.sampleRate * blockAlign(buffer.numberOfChannels))
      v10 == setUint16(v9, 32, blockAlign(buffer.numberOfChannels))
      v11 == setUint16(v10, 34, bitsPerSample)
      v12 == writeString(v11, 36, << 100, 97, 116, 97 >>)
  IN setUint32(v12, 40, dataLength(buffer))

\* x / Scale rounded towards zero, as the conversion of a float to an integer does
TruncDiv(x) == IF x >= 0 THEN x \div Scale ELSE 0 - ((0 - x) \div Scale)

\* mutant: one scale, 0x8000, on both sides of zero
Int16Of_SingleScale(sample) ==
  LET clamped == Max(0 - Scale, Min(Scale, sample))
  IN TruncDiv(clamped * 32768)

\* mutant: the sample is scaled without being clamped
Int16Of_NoClamp(sample) ==
  IF sample < 0 THEN TruncDiv(sample * 32768) ELSE TruncDiv(sample * 32767)

\* lines 243-244: clamp to [-1, 1], scale by 0x8000 below zero and 0x7fff otherwise
Int16Of(sample) ==
  LET clamped == Max(0 - Scale, Min(Scale, sample))
  IN IF clamped < 0 THEN TruncDiv(clamped * 32768) ELSE TruncDiv(clamped * 32767)

\* lines 239-248: frames in order, channels interleaved within a frame
RECURSIVE WriteSamples(_, _, _, _, _)
WriteSamples(view, buffer, i, ch, offset) ==
  IF i >= buffer.length THEN view
  ELSE IF ch >= buffer.numberOfChannels THEN WriteSamples(view, buffer, i + 1, 0, offset)
  ELSE WriteSamples(setInt16(view, offset, Int16Of(buffer.data[ch + 1][i + 1])),
                    buffer, i, ch + 1, offset + 2)

audioBufferToWav(buffer) ==
  LET view == [j \in 1..totalLength(buffer) |-> 0]
  IN WriteSamples(WavHeader(view, buffer), buffer, 0, 0, 44)

\* buffers passed to the encoder: any frame count from 0, samples shifted by a
\* pattern and moved off the half-unit grid, so that the scaled values have a
\* fractional part on both sides of zero
MkWavBuffer(sampleRate, channels, length, p) ==
  [sampleRate |-> sampleRate, numberOfChannels |-> channels, length |-> length,
   data |-> [ch \in 1..channels |->
               [i \in 1..length |-> SampleAt(ch, i - 1 + p) + 37 * ((p % 5) - 2)]]]

WavSources ==
  {MkWavBuffer(r, n, len, p) :
     r \in {8000, 44100}, n \in Channels, len \in 0..MaxWavFrames, p \in 0..MaxPattern}

InitWav ==
  /\ wav \in [buffer : WavSources, done : {FALSE}, bytes : {<< >>}]
  /\ sourceBuffer = NoBuffer
  /\ settings = [cropStart |-> 0, cropEnd |-> 0, volume |-> Scale,
                 fadeIn |-> NoFade, fadeOut |-> NoFade]
  /\ pc = "idle"
  /\ offlineCtx = NoContext
  /\ gain = NewParam
  /\ result = Pending
  /\ ease = NoEase
  /\ peaks = NoPeaks
  /\ opus = NoOpus
  /\ app = NoApp
  /\ heap = NoHeap
  /\ fmt = NoFormat

EncodeWav ==
  /\ ~wav.done
  /\ wav' = [wav EXCEPT !.done = TRUE, !.bytes = audioBufferToWav(wav.buffer)]
  /\ UNCHANGED << sourceBuffer, settings, pc, offlineCtx, gain, result, ease, peaks, opus, app, heap, fmt >>

SpecWav == InitWav /\ [][EncodeWav]_vars

\* ------------------------------------------------------ extractWaveformPeaks
\* channelData[j]: a typed array read outside 0..length-1 gives undefined
ChannelRead(channelData, j) ==
  IF j \in 0..(Len(channelData) - 1)
  THEN [defined |-> TRUE, v |-> channelData[j + 1]]
  ELSE [defined |-> FALSE, v |-> 0]

\* mutant: the window size rounded up
samplesPerBucket_Ceil(length, numBuckets) ==
  IF numBuckets = 0 THEN 0 ELSE (length + numBuckets - 1) \div numBuckets

\* Math.floor(channelData.length / numBuckets); with no bucket the loop never
\* uses it
samplesPerBucket(length, numBuckets) ==
  IF numBuckets = 0 THEN 0 ELSE length \div numBuckets

\* mutant: the minimum is only considered when the maximum was not raised
PeakStep_ElseIf(acc, val, j) ==
  [max |-> IF val.defined /\ val.v > acc.max THEN val.v ELSE acc.max,
   min |-> IF val.defined /\ ~(val.v > acc.max) /\ val.v < acc.min THEN val.v ELSE acc.min,
   reads |-> acc.reads \cup {j}]

\* one pass of the inner loop: comparisons with undefined are false
PeakStep(acc, val, j) ==
  [max |-> IF val.defined /\ val.v > acc.max THEN val.v ELSE acc.max,
   min |-> IF val.defined /\ val.v < acc.min THEN val.v ELSE acc.min,
   reads |-> acc.reads \cup {j}]

\* the inner loop, j from start to end - 1
RECURSIVE ScanWindow(_, _, _, _)
ScanWindow(channelData, j, end, acc) ==
  IF j >= end THEN acc
  ELSE ScanWindow(channelData, j + 1, end, PeakStep(acc, ChannelRead(channelData, j), j))

\* one pass of the outer loop: max = -1 and min = 1 to begin with
PeakBucket(channelData, i, w) ==
  LET start == i * w
      end == Min(start + w, Len(channelData))
  IN ScanWindow(channelData, start, end, [max |-> 0 - Scale, min |-> Scale, reads |-> {}])

extractWaveformPeaks(buffer, numBuckets) ==
  LET channelData == buffer.data[1]
      w == samplesPerBucket(Len(channelData), numBuckets)
  IN [positive |-> [i \in 1..numBuckets |-> PeakBucket(channelData, i - 1, w).max],
      negative |-> [i \in 1..numBuckets |-> PeakBucket(channelData, i - 1, w).min],
      reads |-> UNION {PeakBucket(channelData, i - 1, w).reads : i \in 1..numBuckets}]

\* sample values: inside [-1, 1], below -1 and above 1
PeakValues == {0 - (3 * Scale) \div 2, 0 - Scale \div 2, Scale \div 2, (3 * Scale) \div 2}

\* buffers of one or two channels; a second channel carries other samples
PeakSources ==
  {[sampleRate |-> 8000, numberOfChannels |-> n, length |-> Len(d),
    data |-> [ch \in 1..n |-> IF ch = 1 THEN d ELSE [j \in 1..Len(d) |-> 0 - d[j]]]] :
     n \in Channels, d \in UNION {[1..len -> PeakValues] : len \in 0..MaxPeakLen}}

InitPeaks ==
  /\ peaks \in [buffer : PeakSources, numBuckets : 0..MaxBuckets, done : {FALSE},
                positive : {<< >>}, negative : {<< >>}, reads : {{}}]
  /\ sourceBuffer = NoBuffer
  /\ settings = [cropStart |-> 0, cropEnd |-> 0, volume |-> Scale,
                 fadeIn |-> NoFade, fadeOut |-> NoFade]
  /\ pc = "idle"
  /\ offlineCtx = NoContext
  /\ gain = NewParam
  /\ result = Pending
  /\ ease = NoEase
  /\ wav = NoWav
  /\ opus = NoOpus
  /\ app = NoApp
  /\ heap = NoHeap
  /\ fmt = NoFormat

ExtractPeaks ==
  /\ ~peaks.done
  /\ LET r == extractWaveformPeaks(peaks.buffer, peaks.numBuckets)
     IN peaks' = [peaks EXCEPT !.done = TRUE, !.positive = r.positive,
                               !.negative = r.negative, !.reads = r.reads]
  /\ UNCHANGED << sourceBuffer, settings, pc, offlineCtx, gain, result, ease, wav, opus, app, heap, fmt >>

SpecPeaks == InitPeaks /\ [][ExtractPeaks]_vars

\* ------------------------------------------------ exportAudio, audioBufferToOpus
\* lines 265-270, in the order of the array
candidates ==
  << "audio/mp4;codecs=opus", "audio/ogg;codecs=opus", "audio/webm;codecs=opus",
     "audio/webm" >>

\* candidates.find(pred): the first element that satisfies it, or undefined
RECURSIVE Find(_, _)
Find(seq, supported) ==
  IF seq = << >> THEN ""
  ELSE IF Head(seq) \in supported THEN Head(seq)
  ELSE Find(Tail(seq), supported)

\* mutant: the order of the function's comment, OGG before MP4
pickOpusMimeType_OggFirst(supported) ==
  LET found == Find(<< candidates[2], candidates[1], candidates[3], candidates[4] >>,
                    supported)
  IN IF found # "" THEN found ELSE candidates[4]

\* mutant: nothing supported leaves the choice of the type to the recorder
pickOpusMimeType_NoFallback(supported) == Find(candidates, supported)

\* candidates.find((t) => MediaRecorder.isTypeSupported(t)) ?? candidates[3]
pickOpusMimeType(supported) ==
  LET found == Find(candidates, supported)
  IN IF found # "" THEN found ELSE candidates[4]

\* new MediaRecorder(stream, { mimeType }): a type that is not the empty string
\* and that isTypeSupported rejects makes the constructor throw NotSupportedError
RecorderAccepts(mimeType, supported) == mimeType = "" \/ mimeType \in supported

\* recorder.stop(): the recorder is inactive at once and a task is queued that
\* fires dataavailable, then stop; on an inactive recorder the call has no
\* effect on it, and stopOnInactive remembers that it was made
RecorderStop(o) ==
  IF o.recorder = "recording"
  THEN [o EXCEPT !.recorder = "inactive", !.stopTask = TRUE]
  ELSE [o EXCEPT !.stopOnInactive = TRUE]

\* mutant: the timer's callback does nothing
TimerCallback_Nothing(o) == o

\* lines 315-317: the timer's callback
TimerCallback(o) ==
  IF o.recorder # "inactive" THEN [RecorderStop(o) EXCEPT !.forced = TRUE] ELSE o

\* new Blob(chunks, { type }): chunks are modelled by their sizes
RECURSIVE SumSizes(_)
SumSizes(chunks) == IF chunks = << >> THEN 0 ELSE Head(chunks) + SumSizes(Tail(chunks))
NewBlob(chunks, type) == [size |-> SumSizes(chunks), type |-> type]

\* the characters of the type strings the export handles
Chars(t) ==
    CASE t = "audio/mp4;codecs=opus" ->
         << "a", "u", "d", "i", "o", "/", "m", "p", "4", ";",
            "c", "o", "d", "e", "c", "s", "=", "o", "p", "u", "s" >>
      [] t = "audio/ogg;codecs=opus" ->
         << "a", "u", "d", "i", "o", "/", "o", "g", "g", ";",
            "c", "o", "d", "e", "c", "s", "=", "o", "p", "u", "s" >>
      [] t = "audio/webm;codecs=opus" ->
         << "a", "u", "d", "i", "o", "/", "w", "e", "b", "m", ";",
            "c", "o", "d", "e", "c", "s", "=", "o", "p", "u", "s" >>
      [] t = "audio/webm" ->
         << "a", "u", "d", "i", "o", "/", "w", "e", "b", "m" >>
      [] t = "audio/wav" ->
         << "a", "u", "d", "i", "o", "/", "w", "a", "v" >>
      [] OTHER -> << >>

\* String.prototype.includes: the needle occurs at some position
Includes(hay, needle) ==
  \E i \in 0..(Len(hay) - Len(needle)) : SubSeq(hay, i + 1, i + Len(needle)) = needle

\* mutant: the MP4 container is tagged mp4
ExtensionOf_Mp4(type) ==
  IF Includes(Chars(type), << "o", "g", "g" >>) THEN "ogg"
  ELSE IF Includes(Chars(type), << "m", "p", "4" >>) THEN "mp4"
  ELSE "webm"

\* lines 338-340: blob.type.includes("ogg"), then includes("mp4"), else webm
ExtensionOf(type) ==
  IF Includes(Chars(type), << "o", "g", "g" >>) THEN "ogg"
  ELSE IF Includes(Chars(type), << "m", "p", "4" >>) THEN "m4a"
  ELSE "webm"

InitOpus ==
  /\ opus \in {[NoOpus EXCEPT !.format = f, !.supported = h, !.duration = d,
                               !.pc = "start"] :
                 f \in {"wav", "opus"},
                 \* a host may support any subset of the candidates
                 h \in SUBSET {candidates[i] : i \in 1..Len(candidates)},
                 d \in 0..MaxOpusDuration}
  /\ sourceBuffer = NoBuffer
  /\ settings = [cropStart |-> 0, cropEnd |-> 0, volume |-> Scale,
                 fadeIn |-> NoFade, fadeOut |-> NoFade]
  /\ pc = "idle"
  /\ offlineCtx = NoContext
  /\ gain = NewParam
  /\ result = Pending
  /\ ease = NoEase
  /\ wav = NoWav
  /\ peaks = NoPeaks
  /\ app = NoApp
  /\ heap = NoHeap
  /\ fmt = NoFormat

\* exportAudio, format "wav": lines 336, 343
ExportWav ==
  /\ opus.pc = "start"
  /\ opus.format # "opus"
  /\ opus' = [opus EXCEPT !.pc = "done", !.extension = "wav",
                          !.result = BlobFulfilled([size |-> headerLength,
                                                    type |-> "audio/wav"])]
  /\ UNCHANGED << sourceBuffer, settings, pc, offlineCtx, gain, result, ease, wav, peaks, app, heap, fmt >>

\* exportAudio, format "opus", and audioBufferToOpus down to its await: lines
\* 281-321.  The constructor of the recorder throws on an unsupported type, and
\* the finally block then closes the context.
StartOpus ==
  /\ opus.pc = "start"
  /\ opus.format = "opus"
  /\ LET mimeType == pickOpusMimeType(opus.supported)
     IN IF RecorderAccepts(mimeType, opus.supported)
        THEN opus' = [opus EXCEPT !.pc = "awaiting", !.ctx = "running",
                                  !.mimeType = mimeType, !.recorder = "recording",
                                  !.sourceStarted = TRUE,
                                  !.timer = [armed |-> TRUE,
                                             deadline |-> opus.clock + opus.duration + 1]]
        ELSE opus' = [opus EXCEPT !.pc = "closing", !.ctx = "running",
                                  !.mimeType = mimeType,
                                  !.outcome = BlobRejected("NotSupportedError")]
  /\ UNCHANGED << sourceBuffer, settings, pc, offlineCtx, gain, result, ease, wav, peaks, app, heap, fmt >>

\* time passes while the timer is waiting
Tick ==
  /\ opus.timer.armed
  /\ opus.clock < opus.timer.deadline
  /\ opus' = [opus EXCEPT !.clock = @ + 1]
  /\ UNCHANGED << sourceBuffer, settings, pc, offlineCtx, gain, result, ease, wav, peaks, app, heap, fmt >>

\* source.onended (lines 309-311): the source has played its buffer
SourceEnded ==
  /\ opus.sourceStarted
  /\ opus.ctx = "running"
  /\ ~opus.ended
  /\ opus.clock >= opus.duration
  /\ opus' = [RecorderStop(opus) EXCEPT !.ended = TRUE]
  /\ UNCHANGED << sourceBuffer, settings, pc, offlineCtx, gain, result, ease, wav, peaks, app, heap, fmt >>

\* the timer's callback runs once, at its deadline or later (lines 314-319);
\* lateTimer remembers a run after audioBufferToOpus has settled
TimerFires ==
  /\ opus.timer.armed
  /\ opus.clock >= opus.timer.deadline
  /\ opus' = [TimerCallback(opus) EXCEPT !.timer = NoTimer,
                                         !.lateTimer = @ \/ opus.pc = "done"]
  /\ UNCHANGED << sourceBuffer, settings, pc, offlineCtx, gain, result, ease, wav, peaks, app, heap, fmt >>

\* the task queued by stop(): dataavailable with what was gathered (line 297),
\* then stop (lines 299-301); resolving a settled promise changes nothing
RecorderStopTask ==
  /\ opus.stopTask
  /\ \E size \in 0..1 :
       LET chunks == IF size > 0 THEN Append(opus.chunks, size) ELSE opus.chunks
       IN opus' = [opus EXCEPT !.stopTask = FALSE, !.chunks = chunks,
                     !.recordingDone =
                        IF opus.recordingDone.status = "pending"
                        THEN BlobFulfilled(NewBlob(chunks, opus.mimeType))
                        ELSE opus.recordingDone]
  /\ UNCHANGED << sourceBuffer, settings, pc, offlineCtx, gain, result, ease, wav, peaks, app, heap, fmt >>

\* the recorder fails while recording: onerror (line 302), after which the
\* recorder is inactive and delivers dataavailable and stop
RecorderError ==
  /\ opus.recorder = "recording"
  /\ opus' = [opus EXCEPT !.recorder = "inactive", !.stopTask = TRUE,
                          !.errored = TRUE,
                          !.recordingDone =
                             IF opus.recordingDone.status = "pending"
                             THEN BlobRejected("MediaRecorder error")
                             ELSE opus.recordingDone]
  /\ UNCHANGED << sourceBuffer, settings, pc, offlineCtx, gain, result, ease, wav, peaks, app, heap, fmt >>

\* await recordingDone resumes (lines 321-323); clearTimeout only when fulfilled
ResumeOpus ==
  /\ opus.pc = "awaiting"
  /\ opus.recordingDone.status # "pending"
  /\ opus' = [opus EXCEPT !.pc = "closing", !.outcome = opus.recordingDone,
                          !.timer = IF opus.recordingDone.status = "fulfilled"
                                    THEN NoTimer ELSE opus.timer]
  /\ UNCHANGED << sourceBuffer, settings, pc, offlineCtx, gain, result, ease, wav, peaks, app, heap, fmt >>

\* finally: await ctx.close() (line 325), then exportAudio resumes (lines 337-341)
\* or rejects with the error of audioBufferToOpus
CloseAndReturn ==
  /\ opus.pc = "closing"
  /\ opus' = [opus EXCEPT !.pc = "done", !.ctx = "closed",
                          !.result = opus.outcome,
                          !.extension = IF opus.outcome.status = "fulfilled"
                                        THEN ExtensionOf(opus.outcome.blob.type)
                                        ELSE ""]
  /\ UNCHANGED << sourceBuffer, settings, pc, offlineCtx, gain, result, ease, wav, peaks, app, heap, fmt >>

NextOpus ==
  \/ ExportWav
  \/ StartOpus
  \/ Tick
  \/ SourceEnded
  \/ TimerFires
  \/ RecorderStopTask
  \/ RecorderError
  \/ ResumeOpus
  \/ CloseAndReturn

SpecOpus == InitOpus /\ [][NextOpus]_vars

\* time passes, due timers run and queued tasks and continuations run; nothing
\* promises that the source ends or that the recorder fails
SpecOpusLive ==
  /\ InitOpus /\ [][NextOpus]_vars
  /\ WF_vars(ExportWav) /\ WF_vars(StartOpus) /\ WF_vars(Tick)
  /\ WF_vars(TimerFires) /\ WF_vars(RecorderStopTask)
  /\ WF_vars(ResumeOpus) /\ WF_vars(CloseAndReturn)

\* ------------------------------------------------------------ AudioEditorApp
\* Editor times are integers in units of 1/2000 s: a slider step of 0.01 s is
\* SliderStep units, and a file's duration is a multiple of 10 units, so that
\* duration * 0.1 is exact.  audioData is the duration of the loaded buffer, 0
\* for null.  playbackPosition is kept as the time playbackPosition * duration
\* (the fraction's numerator; the denominator is the file's duration).
\* previews[i] is the i-th call of handlePreview that went on to render, with
\* the settings.cropStart its closure holds; sources[i] is the i-th
\* AudioBufferSourceNode created.

\* the values a range input can take: min + k * step, up to max
SliderValues(min, max, step) ==
  IF max < min THEN {min}
  ELSE {min + k * step : k \in 0..((max - min) \div step)}

AppDurations == {10 * d : d \in 1..MaxAppDuration}

\* the volume slider (0 to 2), on a grid of 0.5
AppVolumes == {v \in 0..(2 * Scale) : v % (Scale \div 2) = 0}

\* lines 26-42
getDefaultSettings(duration) ==
  [cropStart |-> 0, cropEnd |-> duration, volume |-> Scale,
   fadeIn |-> [enabled |-> FALSE, duration |-> Min(100 * SliderStep, duration \div 10),
               curve |-> "linear"],
   fadeOut |-> [enabled |-> FALSE, duration |-> Min(100 * SliderStep, duration \div 10),
                curve |-> "linear"],
   null |-> FALSE]

\* source.stop(): the node stops and its ended event is queued
StopSource(sources, id) ==
  [i \in 1..Len(sources) |->
     IF i = id /\ sources[i] = "playing" THEN "stopping" ELSE sources[i]]

\* lines 42-56; cancelAnimationFrame drops the callback that is waiting
stopPlayback(a) ==
  [a EXCEPT !.sources = IF a.sourceNodeRef # 0 THEN StopSource(a.sources, a.sourceNodeRef)
                                               ELSE a.sources,
            !.sourceNodeRef = 0,
            !.framePending = IF a.animFrameRef # 0 THEN FALSE ELSE @,
            !.animFrameRef = 0,
            !.isPlaying = FALSE]

\* lines 104-135 of handlePreview, once the context runs
StartPlayback(a, p) ==
  [a EXCEPT !.audioCtx = "running",
            !.sources = Append(a.sources, "playing"),
            !.sourceNodeRef = Len(a.sources) + 1,
            !.isPlaying = TRUE,
            !.playbackOffsetRef = a.previews[p].cropStart,
            !.animFrameRef = 1,
            !.framePending = TRUE,
            !.previews = [a.previews EXCEPT ![p].stage = "finished"]]

InitApp ==
  /\ app = NoApp
  /\ sourceBuffer = NoBuffer
  /\ settings = [cropStart |-> 0, cropEnd |-> 0, volume |-> Scale,
                 fadeIn |-> NoFade, fadeOut |-> NoFade]
  /\ pc = "idle"
  /\ offlineCtx = NoContext
  /\ gain = NewParam
  /\ result = Pending
  /\ ease = NoEase
  /\ wav = NoWav
  /\ peaks = NoPeaks
  /\ opus = NoOpus
  /\ heap = NoHeap
  /\ fmt = NoFormat

\* handleAudioSelected up to its await (lines 69-72); the upload area is shown
\* only while no file is loaded and none is being decoded (lines 222-231)
HandleAudioSelected ==
  /\ app.audioData = 0
  /\ ~app.isLoading
  /\ app' = [app EXCEPT !.isLoading = TRUE]
  /\ UNCHANGED << sourceBuffer, settings, pc, offlineCtx, gain, result, ease, wav, peaks, opus, heap, fmt >>

\* decodeAudioFile resolved (lines 73-75, 80)
AudioDecoded ==
  /\ app.isLoading
  /\ \E duration \in AppDurations :
       app' = [app EXCEPT !.audioData = duration,
                          !.settings = getDefaultSettings(duration),
                          !.playbackPosition = 0, !.isLoading = FALSE]
  /\ UNCHANGED << sourceBuffer, settings, pc, offlineCtx, gain, result, ease, wav, peaks, opus, heap, fmt >>

\* decodeAudioFile rejected (lines 76-80)
AudioDecodeFailed ==
  /\ app.isLoading
  /\ app' = [app EXCEPT !.isLoading = FALSE]
  /\ UNCHANGED << sourceBuffer, settings, pc, offlineCtx, gain, result, ease, wav, peaks, opus, heap, fmt >>

\* the controls are rendered only with a file and settings (lines 222, 232)
ControlsShown == app.audioData # 0 /\ ~app.settings.null

\* AudioToolbar.tsx lines 47 and 58: the disabled attribute of both export
\* buttons
DownloadEnabled(a) == ~(a.isOpusLoading \/ a.isWavLoading \/ a.audioData = 0)

\* mutant: Reset looks at the loaded file only
ResetEnabled_AudioOnly(a) == a.audioData # 0

\* AudioToolbar.tsx line 68: the disabled attribute of Reset
ResetEnabled(a) == ~(a.audioData = 0 \/ a.isOpusLoading \/ a.isWavLoading)

\* handleReset (lines 178-183), reached through the Reset button
HandleReset ==
  /\ ResetEnabled(app)
  /\ app' = [stopPlayback(app) EXCEPT !.audioData = 0, !.settings = NoSettings,
                                      !.playbackPosition = 0]
  /\ UNCHANGED << sourceBuffer, settings, pc, offlineCtx, gain, result, ease, wav, peaks, opus, heap, fmt >>

\* mutant: the start slider is not checked against the end
CropStartAccepted_Always(val, s) == TRUE

\* CropControls.tsx line 42
CropStartAccepted(val, s) == val < s.cropEnd

\* CropControls.tsx line 63
CropEndAccepted(val, s) == val > s.cropStart

\* CropControls, start slider (lines 34-46) and updateSetting (lines 185-191)
UpdateCropStart ==
  /\ ControlsShown
  /\ \E val \in SliderValues(0, app.audioData, SliderStep) :
       IF CropStartAccepted(val, app.settings)
       THEN app' = [app EXCEPT !.settings.cropStart = val]
       ELSE app' = app
  /\ UNCHANGED << sourceBuffer, settings, pc, offlineCtx, gain, result, ease, wav, peaks, opus, heap, fmt >>

\* CropControls, end slider (lines 55-67)
UpdateCropEnd ==
  /\ ControlsShown
  /\ \E val \in SliderValues(0, app.audioData, SliderStep) :
       IF CropEndAccepted(val, app.settings)
       THEN app' = [app EXCEPT !.settings.cropEnd = val]
       ELSE app' = app
  /\ UNCHANGED << sourceBuffer, settings, pc, offlineCtx, gain, result, ease, wav, peaks, opus, heap, fmt >>

\* VolumeControl
UpdateVolume ==
  /\ ControlsShown
  /\ \E val \in AppVolumes : app' = [app EXCEPT !.settings.volume = val]
  /\ UNCHANGED << sourceBuffer, settings, pc, offlineCtx, gain, result, ease, wav, peaks, opus, heap, fmt >>

\* FadeControl of fadeIn: the switch, the duration slider (min 0.01, max
\* min(10, cropEnd - cropStart)) and the curve select, shown when enabled
UpdateFadeIn ==
  /\ ControlsShown
  /\ \/ app' = [app EXCEPT !.settings.fadeIn.enabled = ~@]
     \/ /\ app.settings.fadeIn.enabled
        /\ \E val \in SliderValues(SliderStep,
                                    Min(1000 * SliderStep,
                                        app.settings.cropEnd - app.settings.cropStart),
                                    SliderStep) :
             app' = [app EXCEPT !.settings.fadeIn.duration = val]
     \/ /\ app.settings.fadeIn.enabled
        /\ \E val \in EaseCurve : app' = [app EXCEPT !.settings.fadeIn.curve = val]
  /\ UNCHANGED << sourceBuffer, settings, pc, offlineCtx, gain, result, ease, wav, peaks, opus, heap, fmt >>

\* FadeControl of fadeOut
UpdateFadeOut ==
  /\ ControlsShown
  /\ \/ app' = [app EXCEPT !.settings.fadeOut.enabled = ~@]
     \/ /\ app.settings.fadeOut.enabled
        /\ \E val \in SliderValues(SliderStep,
                                    Min(1000 * SliderStep,
                                        app.settings.cropEnd - app.settings.cropStart),
                                    SliderStep) :
             app' = [app EXCEPT !.settings.fadeOut.duration = val]
     \/ /\ app.settings.fadeOut.enabled
        /\ \E val \in EaseCurve : app' = [app EXCEPT !.settings.fadeOut.curve = val]
  /\ UNCHANGED << sourceBuffer, settings, pc, offlineCtx, gain, result, ease, wav, peaks, opus, heap, fmt >>

\* handlePreview up to its await (lines 84-93): a click while isPlaying stops the
\* playback, any other click starts a render
HandlePreview ==
  /\ ControlsShown
  /\ IF app.isPlaying
     THEN app' = stopPlayback(app)
     ELSE /\ Len(app.previews) < MaxPreviews
          /\ app' = [app EXCEPT !.previews =
                         Append(@, [stage |-> "rendering",
                                    cropStart |-> app.settings.cropStart])]
  /\ UNCHANGED << sourceBuffer, settings, pc, offlineCtx, gain, result, ease, wav, peaks, opus, heap, fmt >>

\* processAudio resolved: lines 95-102, and lines 104-135 unless the context
\* is suspended and has to be resumed first
PreviewRendered ==
  /\ \E p \in 1..Len(app.previews) :
       /\ app.previews[p].stage = "rendering"
       /\ \E state \in IF app.audioCtx \in {"none", "closed"}
                        THEN {"running", "suspended"}
                        ELSE {app.audioCtx} :
            IF state = "suspended"
            THEN app' = [app EXCEPT !.audioCtx = "suspended",
                                    !.previews = [app.previews EXCEPT
                                                    ![p].stage = "resuming"]]
            ELSE app' = StartPlayback(app, p)
  /\ UNCHANGED << sourceBuffer, settings, pc, offlineCtx, gain, result, ease, wav, peaks, opus, heap, fmt >>

\* ctx.resume() resolved: lines 104-135
PreviewResumed ==
  /\ \E p \in 1..Len(app.previews) :
       /\ app.previews[p].stage = "resuming"
       /\ app' = StartPlayback(app, p)
  /\ UNCHANGED << sourceBuffer, settings, pc, offlineCtx, gain, result, ease, wav, peaks, opus, heap, fmt >>

\* processAudio rejected: lines 136-139
PreviewFailed ==
  /\ \E p \in 1..Len(app.previews) :
       /\ app.previews[p].stage = "rendering"
       /\ app' = [stopPlayback(app) EXCEPT !.previews[p].stage = "finished"]
  /\ UNCHANGED << sourceBuffer, settings, pc, offlineCtx, gain, result, ease, wav, peaks, opus, heap, fmt >>

\* source.onended (lines 112-115): the source played to its end, or the event
\* queued by stop() is delivered
SourceOnEnded ==
  /\ \E id \in 1..Len(app.sources) :
       /\ app.sources[id] \in {"playing", "stopping"}
       /\ app' = [stopPlayback([app EXCEPT !.sources[id] = "ended"])
                    EXCEPT !.playbackPosition = 0]
  /\ UNCHANGED << sourceBuffer, settings, pc, offlineCtx, gain, result, ease, wav, peaks, opus, heap, fmt >>

\* updatePosition (lines 123-133): nothing without a referenced source;
\* otherwise the position moves to settings.cropStart + elapsed and the
\* callback is scheduled again while elapsed < duration
UpdatePosition ==
  /\ app.framePending
  /\ IF app.audioCtx = "none" \/ app.sourceNodeRef = 0
     THEN app' = [app EXCEPT !.framePending = FALSE]
     ELSE \E again \in BOOLEAN : \E elapsed \in {0, 10} :
            app' = [app EXCEPT !.playbackPosition = app.playbackOffsetRef + elapsed,
                               !.framePending = again,
                               !.animFrameRef = IF again THEN 1 ELSE @]
  /\ UNCHANGED << sourceBuffer, settings, pc, offlineCtx, gain, result, ease, wav, peaks, opus, heap, fmt >>

\* the times a click on the waveform asks for: ratio * duration, from 0 up
\* to the longest file
SeekTimes == {5 * k : k \in 0..(2 * MaxAppDuration)}

\* mutant: the clicked time is taken as it is
handleSeek_Unclamped(a, time) ==
  IF a.audioData = 0 \/ a.settings.null THEN a
  ELSE [a EXCEPT !.playbackPosition = time]

\* lines 142-150: Math.max(cropStart, Math.min(cropEnd, time)) / duration
handleSeek(a, time) ==
  IF a.audioData = 0 \/ a.settings.null THEN a
  ELSE [a EXCEPT !.playbackPosition =
                    Max(a.settings.cropStart, Min(a.settings.cropEnd, time))]

\* WaveformDisplay.handleClick calls onSeek with a time inside the file; the
\* handler of an earlier render may still be called when nothing is loaded
HandleSeek ==
  /\ \E time \in SeekTimes :
       /\ app.audioData # 0 => time <= app.audioData
       /\ app' = handleSeek(app, time)
  /\ UNCHANGED << sourceBuffer, settings, pc, offlineCtx, gain, result, ease, wav, peaks, opus, heap, fmt >>

ExportFormats == {"opus", "wav"}

\* mutant: the setter of the opus flag is taken for both formats
SetLoading_Opus(a, format, v) == [a EXCEPT !.isOpusLoading = v]

\* line 155 and the calls of lines 156 and 174:
\* setLoading = format === "opus" ? setIsOpusLoading : setIsWavLoading
SetLoading(a, format, v) ==
  IF format = "opus" THEN [a EXCEPT !.isOpusLoading = v]
  ELSE [a EXCEPT !.isWavLoading = v]

\* the exports that have not reached their finally block
InFlight(a) ==
  {i \in 1..Len(a.exports) : a.exports[i].stage \in {"processing", "exporting"}}

\* handleDownload up to its first await (lines 152-158), reached through an
\* export button; the call keeps the audioData of the render it was made in
HandleDownload ==
  /\ DownloadEnabled(app)
  /\ Len(app.exports) < MaxExports
  /\ app.audioData # 0 /\ ~app.settings.null
  /\ \E format \in ExportFormats :
       app' = [SetLoading(app, format, TRUE) EXCEPT
                 !.exports = Append(@, [format |-> format,
                                        stage |-> "processing",
                                        audio |-> app.audioData])]
  /\ UNCHANGED << sourceBuffer, settings, pc, offlineCtx, gain, result, ease, wav, peaks, opus, heap, fmt >>

\* processAudio resolved, exportAudio is awaited (lines 158-159)
ExportProcessed ==
  /\ \E i \in InFlight(app) :
       /\ app.exports[i].stage = "processing"
       /\ app' = [app EXCEPT !.exports[i].stage = "exporting"]
  /\ UNCHANGED << sourceBuffer, settings, pc, offlineCtx, gain, result, ease, wav, peaks, opus, heap, fmt >>

\* exportAudio resolved: the link is clicked, then finally (lines 159-169, 173-175)
ExportDone ==
  /\ \E i \in InFlight(app) :
       /\ app.exports[i].stage = "exporting"
       /\ app' = [SetLoading(app, app.exports[i].format, FALSE) EXCEPT
                    !.exports[i].stage = "done"]
  /\ UNCHANGED << sourceBuffer, settings, pc, offlineCtx, gain, result, ease, wav, peaks, opus, heap, fmt >>

\* processAudio or exportAudio rejected: catch, then finally (lines 170-175)
ExportFailed ==
  /\ \E i \in InFlight(app) :
       app' = [SetLoading(app, app.exports[i].format, FALSE) EXCEPT
                 !.exports[i].stage = "failed"]
  /\ UNCHANGED << sourceBuffer, settings, pc, offlineCtx, gain, result, ease, wav, peaks, opus, heap, fmt >>

\* loading, the toolbar and the exports
NextExport ==
  \/ HandleAudioSelected
  \/ AudioDecoded
  \/ AudioDecodeFailed
  \/ HandleReset
  \/ HandleDownload
  \/ ExportProcessed
  \/ ExportDone
  \/ ExportFailed

SpecExport == InitApp /\ [][NextExport]_vars

\* processAudio settles when the offline render completes, and exportAudio
\* settles because the recorder is stopped by the source or by the timer
SpecExportLive == SpecExport /\ WF_vars(ExportProcessed \/ ExportDone \/ ExportFailed)

\* the settings controls
NextSettings ==
  \/ HandleAudioSelected
  \/ AudioDecoded
  \/ AudioDecodeFailed
  \/ HandleReset
  \/ UpdateCropStart
  \/ UpdateCropEnd
  \/ UpdateVolume
  \/ UpdateFadeIn
  \/ UpdateFadeOut

SpecSettings == InitApp /\ [][NextSettings]_vars

\* the crop sliders and clicks on the waveform
NextSeek ==
  \/ HandleAudioSelected
  \/ AudioDecoded
  \/ AudioDecodeFailed
  \/ HandleReset
  \/ UpdateCropStart
  \/ UpdateCropEnd
  \/ HandleSeek

SpecSeek == InitApp /\ [][NextSeek]_vars

\* the preview
NextPreview ==
  \/ HandleAudioSelected
  \/ AudioDecoded
  \/ AudioDecodeFailed
  \/ HandleReset
  \/ HandlePreview
  \/ PreviewRendered
  \/ PreviewResumed
  \/ PreviewFailed
  \/ SourceOnEnded
  \/ UpdatePosition

SpecPreview == InitApp /\ [][NextPreview]_vars

\* ------------------------------------------- calls on one source AudioBuffer
\* heap.buffers[i] is the AudioBuffer with identity i; the buffer with identity
\* 1 is the source, heap.original what it held when it was made.

\* processAudio from its first line to the settled promise (lines 63-161), for
\* one choice of the first frame played
processAudio(buffer, s, first) ==
  IF EmptyRegion(s) THEN Rejected("Crop region is empty")
  ELSE LET ctx == NewOfflineAudioContext(buffer.numberOfChannels, croppedLength(s),
                                         buffer.sampleRate)
           g0 == setValueAtTime(NewParam, s.volume, 0)
           g1 == FadeInAutomation(g0, s)
           g2 == FadeOutAutomation(g1, s)
       IN IF g1.error # "" THEN Rejected(g1.error)
          ELSE IF g2.error # "" THEN Rejected(g2.error)
          ELSE Fulfilled(RenderedBuffer(buffer, s, ctx, g2.events, first))

\* mutant: the rendering is written over the buffer that was rendered
Allocate_InPlace(buffers, input, buffer) == [buffers EXCEPT ![input] = buffer]

\* offlineCtx.startRendering() resolves with an AudioBuffer of its own (line
\* 160); the buffer given to the source node (line 86) is only read
Allocate(buffers, input, buffer) == Append(buffers, buffer)

\* the settings of the calls: whole and partial regions, an empty one, fades
\* that fit and fades that collide
CallSettings(buffer) ==
  {[cropStart |-> a, cropEnd |-> b, volume |-> v, fadeIn |-> fi, fadeOut |-> fo] :
     a \in {0, 1}, b \in {1, Duration(buffer)}, v \in {Scale \div 2, (5 * Scale) \div 2},
     fi \in {NoFade, [enabled |-> TRUE, duration |-> MaxFade, curve |-> "logarithmic"]},
     fo \in {NoFade, [enabled |-> TRUE, duration |-> 1, curve |-> "linear"],
             [enabled |-> TRUE, duration |-> MaxFade, curve |-> "sCurve"]}}

InitCalls ==
  /\ heap \in {[buffers |-> << b >>, original |-> b, calls |-> 0, last |-> NoCall] :
                 b \in Sources}
  /\ sourceBuffer = NoBuffer
  /\ settings = [cropStart |-> 0, cropEnd |-> 0, volume |-> Scale,
                 fadeIn |-> NoFade, fadeOut |-> NoFade]
  /\ pc = "idle"
  /\ offlineCtx = NoContext
  /\ gain = NewParam
  /\ result = Pending
  /\ ease = NoEase
  /\ wav = NoWav
  /\ peaks = NoPeaks
  /\ opus = NoOpus
  /\ app = NoApp
  /\ fmt = NoFormat

\* processAudio(source, s)
CallProcessAudio ==
  /\ heap.calls < MaxCalls
  /\ \E s \in CallSettings(heap.buffers[1]) : \E first \in PlayStarts(s) :
       LET r == processAudio(heap.buffers[1], s, first)
       IN IF r.status = "fulfilled"
          THEN heap' = [heap EXCEPT
                          !.buffers = Allocate(heap.buffers, 1, r.buffer),
                          !.calls = @ + 1,
                          !.last = [fn |-> "processAudio", input |-> 1,
                                    output |-> Len(Allocate(heap.buffers, 1, r.buffer)),
                                    error |-> ""]]
          ELSE heap' = [heap EXCEPT
                          !.calls = @ + 1,
                          !.last = [fn |-> "processAudio", input |-> 1, output |-> 0,
                                    error |-> r.error]]
  /\ UNCHANGED << sourceBuffer, settings, pc, offlineCtx, gain, result, ease, wav, peaks, opus, app, fmt >>

\* extractWaveformPeaks(buffer, numBuckets) on any of the buffers: it reads
\* channelData[j] and writes its own two arrays
CallExtractWaveformPeaks ==
  /\ heap.calls < MaxCalls
  /\ \E i \in 1..Len(heap.buffers) : \E numBuckets \in {1, MaxBuckets} :
       /\ extractWaveformPeaks(heap.buffers[i], numBuckets).reads \subseteq
            0..(heap.buffers[i].length - 1)
       /\ heap' = [heap EXCEPT !.calls = @ + 1,
                               !.last = [fn |-> "extractWaveformPeaks", input |-> i,
                                         output |-> 0, error |-> ""]]
  /\ UNCHANGED << sourceBuffer, settings, pc, offlineCtx, gain, result, ease, wav, peaks, opus, app, fmt >>

\* audioBufferToWav(buffer) on any of the buffers: it reads getChannelData(ch)[i]
\* and writes its own ArrayBuffer
CallAudioBufferToWav ==
  /\ heap.calls < MaxCalls
  /\ \E i \in 1..Len(heap.buffers) :
       /\ Len(audioBufferToWav(heap.buffers[i])) = totalLength(heap.buffers[i])
       /\ heap' = [heap EXCEPT !.calls = @ + 1,
                               !.last = [fn |-> "audioBufferToWav", input |-> i,
                                         output |-> 0, error |-> ""]]
  /\ UNCHANGED << sourceBuffer, settings, pc, offlineCtx, gain, result, ease, wav, peaks, opus, app, fmt >>

SpecCalls == InitCalls /\ [][CallProcessAudio \/ CallExtractWaveformPeaks \/ CallAudioBufferToWav]_vars

\* ================================================================ formatTime
Digits == << "0", "1", "2", "3", "4", "5", "6", "7", "8", "9" >>

\* Number::toString of a non-negative integer
RECURSIVE ToDecimal(_)
ToDecimal(n) ==
  IF n < 10 THEN << Digits[n + 1] >>
  ELSE Append(ToDecimal(n \div 10), Digits[(n % 10) + 1])

\* Number.prototype.toFixed(2) of ms / 1000: the integer n for which n / 100 is
\* nearest to the number. A number written with a final 5 in the thousandths
\* is held as a double a little above or a little below, so either neighbour
\* can be the nearest one: up says which.
toFixed2(ms, up) ==
  LET low == ms \div 10
      r == ms % 10
      n == IF r > 5 \/ (r = 5 /\ up) THEN low + 1 ELSE low
  IN ToDecimal(n \div 100)
       \o << ".", Digits[((n \div 10) % 10) + 1], Digits[(n % 10) + 1] >>

\* String.prototype.padStart with a one-character fill
RECURSIVE padStart(_, _, _)
padStart(str, maxLength, fill) ==
  IF Len(str) >= maxLength THEN str
  ELSE padStart(<< fill >> \o str, maxLength, fill)

\* lines 349-353, seconds in milliseconds
formatTime(ms, up) ==
  LET mins == ms \div 60000
      secs == ms % 60000
  IN ToDecimal(mins) \o << ":" >> \o padStart(toFixed2(secs, up), 5, "0")

\* PlaybackControls line 33 formats playbackPosition * duration
FormatInputs == 0..(MaxFormatSeconds * 1000)

InitFormat ==
  /\ fmt \in {[NoFormat EXCEPT !.seconds = ms] : ms \in FormatInputs}
  /\ sourceBuffer = NoBuffer
  /\ settings = [cropStart |-> 0, cropEnd |-> 0, volume |-> Scale,
                 fadeIn |-> NoFade, fadeOut |-> NoFade]
  /\ pc = "idle"
  /\ offlineCtx = NoContext
  /\ gain = NewParam
  /\ result = Pending
  /\ ease = NoEase
  /\ wav = NoWav
  /\ peaks = NoPeaks
  /\ opus = NoOpus
  /\ app = NoApp
  /\ heap = NoHeap

\* formatTime(seconds)
FormatTime ==
  /\ ~fmt.done
  /\ \E up \in BOOLEAN :
       fmt' = [fmt EXCEPT !.text = formatTime(fmt.seconds, up), !.done = TRUE]
  /\ UNCHANGED << sourceBuffer, settings, pc, offlineCtx, gain, result, ease, wav, peaks, opus, app, heap >>

SpecFormat == InitFormat /\ [][FormatTime]_vars

\* ===================================================== claims on processAudio
\* the claims' own reading of the settings
QStart == settings.cropStart \div Sub
QEnd == settings.cropEnd \div Sub
QLength == QEnd - QStart
Region == QLength * Sub

FadeInOn == settings.fadeIn.enabled /\ settings.fadeIn.duration > 0
FadeOutOn == settings.fadeOut.enabled /\ settings.fadeOut.duration > 0
FadeInEnd == IF FadeInOn THEN Min(settings.fadeIn.duration, Region) ELSE 0
FadeOutBegin == IF FadeOutOn THEN Region - Min(settings.fadeOut.duration, Region) ELSE Region
WindowsOverlap == FadeInOn /\ FadeOutOn /\ FadeInEnd > FadeOutBegin

\* every automation call of processAudio has been made and none has thrown
Scheduled == pc \in {"render", "done"} /\ offlineCtx.created /\ gain.error = ""
Gain(t) == ValueAt(gain.events, t)

\* C1: a successful render has floor(cropEnd*sampleRate) - floor(cropStart*sampleRate)
\* frames in every channel, and the channel count and sample rate of the source.
C1_CropLength ==
  result.status = "fulfilled" =>
    /\ settings.cropStart < settings.cropEnd
    /\ result.buffer.length = QLength
    /\ result.buffer.numberOfChannels = sourceBuffer.numberOfChannels
    /\ result.buffer.sampleRate = sourceBuffer.sampleRate
    /\ DOMAIN result.buffer.data = 1..sourceBuffer.numberOfChannels
    /\ \A ch \in DOMAIN result.buffer.data : Len(result.buffer.data[ch]) = QLength

\* a stereo render whose crop start and crop end both lie between two frames
C1_Witness ==
  /\ result.status = "fulfilled"
  /\ settings.cropStart % Sub # 0
  /\ settings.cropEnd % Sub # 0
  /\ settings.cropStart > 0
  /\ sourceBuffer.numberOfChannels = 2

\* C2: processAudio rejects with the empty-region error exactly when the quantised
\* length is <= 0, and then no context, gain automation or buffer exists.
C2_EmptyRegion ==
  pc # "start" =>
    /\ (QLength <= 0) <=>
         (result.status = "rejected" /\ result.error = "Crop region is empty")
    /\ QLength <= 0 =>
         /\ pc = "done"
         /\ ~offlineCtx.created
         /\ gain = NewParam
         /\ result.buffer = NoBuffer

\* rejected although cropEnd > cropStart: both quantise to the same frame
C2_Witness ==
  /\ pc = "done"
  /\ result.error = "Crop region is empty"
  /\ settings.cropEnd > settings.cropStart
  /\ ~offlineCtx.created

\* C3 (as claimed): with both fades disabled every output frame i of every channel
\* is volume times source frame floor(cropStart*sampleRate) + i.
C3_Claim ==
  (result.status = "fulfilled" /\ ~settings.fadeIn.enabled /\ ~settings.fadeOut.enabled) =>
    \A ch \in 1..sourceBuffer.numberOfChannels :
      \A i \in 0..(QLength - 1) :
        result.buffer.data[ch][i + 1]
          = (settings.volume * sourceBuffer.data[ch][QStart + i + 1]) \div Scale

\* the gain of processAudio with only its fade-in, and with only its fade-out
FadeInOnlyGain(t) ==
  ValueAt(FadeInAutomation(setValueAtTime(NewParam, settings.volume, 0), settings).events, t)
FadeOutOnlyGain(t) ==
  ValueAt(FadeOutAutomation(setValueAtTime(NewParam, settings.volume, 0), settings).events, t)

\* C4 (as claimed): the gain at every output frame is the product
\* volume * fadeInFactor * fadeOutFactor (stated without division:
\* gain * volume = (volume*fadeInFactor) * (volume*fadeOutFactor)).
C4_Claim ==
  result.status = "fulfilled" =>
    \A i \in 0..(QLength - 1) :
      Gain(i * Sub) * settings.volume = FadeInOnlyGain(i * Sub) * FadeOutOnlyGain(i * Sub)

\* C5: the fade-in covers exactly [0, min(fadeIn.duration, regionDuration)] and the
\* fade-out exactly [regionDuration - min(fadeOut.duration, regionDuration),
\* regionDuration]: outside both windows the gain is volume, and (for windows that
\* do not overlap and a volume above the epsilon) the gain is volume only there.
C5_FadeWindows ==
  Scheduled =>
    /\ FadeInOn =>
         \E i \in 1..Len(gain.events) :
           LET e == gain.events[i]
           IN IF settings.fadeIn.curve \in {"logarithmic", "sCurve"}
                THEN e.type = "setValueCurve" /\ e.dir = "in"
                     /\ e.time = 0 /\ e.duration = FadeInEnd
                ELSE e.type \in {"linearRamp", "exponentialRamp"}
                     /\ e.value = settings.volume /\ e.time = FadeInEnd
    /\ FadeOutOn =>
         \E i \in 1..Len(gain.events) :
           LET e == gain.events[i]
           IN IF settings.fadeOut.curve \in {"logarithmic", "sCurve"}
                THEN e.type = "setValueCurve" /\ e.dir = "out"
                     /\ e.time = FadeOutBegin /\ e.time + e.duration = Region
                ELSE e.type = "setValue" /\ e.value = settings.volume
                     /\ e.time = FadeOutBegin
                     /\ \E j \in (i + 1)..Len(gain.events) :
                          /\ gain.events[j].type \in {"linearRamp", "exponentialRamp"}
                          /\ gain.events[j].value \in {0, Epsilon}
                          /\ gain.events[j].time = Region
    /\ \A t \in 0..Region :
      /\ ((FadeInOn => t > FadeInEnd) /\ (FadeOutOn => t < FadeOutBegin))
           => Gain(t) = settings.volume
      /\ (~WindowsOverlap /\ settings.volume > Epsilon)
           => ((Gain(t) = settings.volume) <=> (FadeInEnd <= t /\ t <= FadeOutBegin))

\* a fade-in configured longer than the cropped region, with a fade-out
C5_Witness ==
  /\ result.status = "fulfilled"
  /\ FadeInOn /\ settings.fadeIn.duration > Region
  /\ settings.volume > Epsilon
  /\ Region > Sub

\* a fade-in and a fade-out with a gap between their windows
C5_WitnessGap ==
  /\ result.status = "fulfilled"
  /\ FadeInOn /\ FadeOutOn /\ FadeInEnd < FadeOutBegin

\* C6: a lone fade-in ends at gain volume for every curve and starts at 0, or at the
\* epsilon for the exponential curve; a lone exponential fade-out ends at the
\* epsilon and a lone linear fade-out at 0.
C6_FadeBoundaries ==
  Scheduled =>
    /\ (FadeInOn /\ ~FadeOutOn) =>
         /\ Gain(FadeInEnd) = settings.volume
         /\ Gain(0) = IF settings.fadeIn.curve = "exponential" THEN Epsilon ELSE 0
    /\ (FadeOutOn /\ ~FadeInOn) =>
         /\ settings.fadeOut.curve = "exponential" => Gain(Region) = Epsilon
         /\ settings.fadeOut.curve = "linear" => Gain(Region) = 0

C6_Witness ==
  /\ result.status = "fulfilled"
  /\ FadeInOn /\ ~settings.fadeOut.enabled
  /\ settings.fadeIn.curve = "exponential"
  /\ settings.volume > Epsilon
  /\ result.buffer.data[1][1] # 0

\* C7 (as claimed): for every volume >= 0, every fade configuration and every
\* non-empty crop region the render completes without error.
C7_Claim ==
  (pc = "done" /\ settings.volume >= 0 /\ QLength > 0) => result.status = "fulfilled"

\* C8 (as claimed): with overlapping fade windows the render still succeeds for
\* every pair of curves and from the start of the fade-out window on the gain is
\* the fade-out envelope.
C8_Claim ==
  (pc = "done" /\ WindowsOverlap /\ settings.volume > 0) =>
    /\ result.status = "fulfilled"
    /\ \A t \in FadeOutBegin..Region : Gain(t) = FadeOutOnlyGain(t)

\* ==================================================== claims on applyEaseCurve
\* C9: for every curve applyEaseCurve maps [0,1] into [0,1], is 0 at 0 and 1 at 1,
\* is non-decreasing, and is t, t^2, sqrt(t), t^2(3-2t) (to the fixed-point unit).
C9_EaseCurve ==
  ease.done =>
    LET d == ease.den
        k == ease.t1
        v == ease.v1
    IN /\ 0 <= v /\ v <= Scale
       /\ k = 0 => v = 0
       /\ k = d => v = Scale
       /\ ease.t1 <= ease.t2 => ease.v1 <= ease.v2
       /\ ease.curve = "linear" => (v * d <= k * Scale /\ k * Scale < (v + 1) * d)
       /\ ease.curve = "exponential" =>
            (v * d * d <= k * k * Scale /\ k * k * Scale < (v + 1) * d * d)
       /\ ease.curve = "logarithmic" =>
            (v * v * d <= k * Scale * Scale /\ k * Scale * Scale < (v + 1) * (v + 1) * d)
       /\ ease.curve = "sCurve" =>
            LET x == k * k * (3 * d - 2 * k)
            IN (v * d * d * d <= x * Scale /\ x * Scale < (v + 1) * d * d * d)

\* the smoothstep evaluated at two different interior points
C9_Witness ==
  /\ ease.done
  /\ ease.curve = "sCurve"
  /\ 0 < ease.t1 /\ ease.t1 < ease.t2 /\ ease.t2 < ease.den
  /\ ease.v1 < ease.v2

\* ================================================== claims on audioBufferToWav
\* an independent reader of little-endian fields at byte offset off
U16At(bytes, off) == bytes[off + 1] + 256 * bytes[off + 2]
U32At(bytes, off) ==
  bytes[off + 1] + 256 * bytes[off + 2] + 65536 * bytes[off + 3] + 16777216 * bytes[off + 4]
TagAt(bytes, off) == SubSeq(bytes, off + 1, off + 4)

\* C10: the output is 44 + F*N*2 bytes; its header is RIFF, 36 + F*N*2, WAVE, fmt,
\* 16, 1, N, R, R*N*2, N*2, 16, data, F*N*2; a zero-frame buffer gives the
\* 44-byte header alone.
C10_WavHeader ==
  wav.done =>
    LET b == wav.bytes
        N == wav.buffer.numberOfChannels
        R == wav.buffer.sampleRate
        F == wav.buffer.length
    IN /\ Len(b) = 44 + F * N * 2
       /\ \A j \in 1..Len(b) : b[j] \in 0..255
       /\ TagAt(b, 0) = << 82, 73, 70, 70 >>
       /\ U32At(b, 4) = 36 + F * N * 2
       /\ TagAt(b, 8) = << 87, 65, 86, 69 >>
       /\ TagAt(b, 12) = << 102, 109, 116, 32 >>
       /\ U32At(b, 16) = 16
       /\ U16At(b, 20) = 1
       /\ U16At(b, 22) = N
       /\ U32At(b, 24) = R
       /\ U32At(b, 28) = R * N * 2
       /\ U16At(b, 32) = N * 2
       /\ U16At(b, 34) = 16
       /\ TagAt(b, 36) = << 100, 97, 116, 97 >>
       /\ U32At(b, 40) = F * N * 2
       /\ F = 0 => Len(b) = 44

\* a stereo buffer with no frames, encoded
C10_Witness ==
  /\ wav.done
  /\ wav.buffer.length = 0
  /\ wav.buffer.numberOfChannels = 2
  /\ Len(wav.bytes) = 44

\* a stereo buffer at 44100 Hz with frames, encoded
C10_WitnessFrames ==
  /\ wav.done
  /\ wav.buffer.length > 1
  /\ wav.buffer.numberOfChannels = 2
  /\ wav.buffer.sampleRate = 44100

\* an independent reader of a signed little-endian 16-bit field
S16At(bytes, off) ==
  IF U16At(bytes, off) >= 32768 THEN U16At(bytes, off) - 65536 ELSE U16At(bytes, off)

\* the sample of channel ch (0-based) at frame i (0-based) of the encoded buffer
WavSample(i, ch) == wav.buffer.data[ch + 1][i + 1]

\* the stored value at the slot of frame i, channel ch
WavStored(i, ch) == S16At(wav.bytes, 44 + 2 * (i * wav.buffer.numberOfChannels + ch))

\* q is c * scale with the fraction dropped, c in units of 1/Scale
IsQuantized(q, c) ==
  IF c < 0
  THEN /\ q <= 0
       /\ (0 - q) * Scale <= (0 - c) * 32768
       /\ (0 - c) * 32768 < (1 - q) * Scale
  ELSE /\ q >= 0
       /\ q * Scale <= c * 32767
       /\ c * 32767 < (q + 1) * Scale

\* C11: the signed 16-bit value at byte offset 44 + 2*(i*N + ch) is the sample
\* of channel ch at frame i, clamped to [-1, 1] and scaled by 32768 below zero
\* and 32767 otherwise; for every sample, also outside [-1, 1], it lies in
\* [-32768, 32767] and keeps the sign of the sample (it never wraps around).
C11_WavSamples ==
  wav.done =>
    \A i \in 0..(wav.buffer.length - 1) :
      \A ch \in 0..(wav.buffer.numberOfChannels - 1) :
        LET s == WavSample(i, ch)
            c == IF s < 0 - Scale THEN 0 - Scale ELSE IF s > Scale THEN Scale ELSE s
            q == WavStored(i, ch)
        IN /\ IsQuantized(q, c)
           /\ q \in -32768..32767
           /\ s < 0 => q <= 0
           /\ s > 0 => q >= 0
           /\ s >= Scale => q = 32767
           /\ s <= 0 - Scale => q = -32768

\* a stereo buffer of several frames is encoded, with a sample above 1, a sample
\* below -1 and samples whose scaled value has a fractional part on either side
C11_Witness ==
  /\ wav.done
  /\ wav.buffer.numberOfChannels = 2
  /\ wav.buffer.length >= 2
  /\ \E i \in 0..(wav.buffer.length - 1), ch \in 0..1 : WavSample(i, ch) > Scale
  /\ \E i \in 0..(wav.buffer.length - 1), ch \in 0..1 : WavSample(i, ch) < 0 - Scale
  /\ \E i \in 0..(wav.buffer.length - 1), ch \in 0..1 :
       /\ WavSample(i, ch) \in 1..(Scale - 1)
       /\ (WavSample(i, ch) * 32767) % Scale # 0
  /\ \E i \in 0..(wav.buffer.length - 1), ch \in 0..1 :
       /\ WavSample(i, ch) \in (1 - Scale)..(-1)
       /\ (WavSample(i, ch) * 32768) % Scale # 0
  /\ WavSample(0, 1) # WavSample(1, 0)

\* C12: decoding the stored value by its scale (32768 below zero, 32767
\* otherwise) gives a value within 1/32767 of a sample in [-1, 1]; a sample
\* above 1 decodes to 1 and a sample below -1 to -1.
C12_WavRoundTrip ==
  wav.done =>
    \A i \in 0..(wav.buffer.length - 1) :
      \A ch \in 0..(wav.buffer.numberOfChannels - 1) :
        LET s == WavSample(i, ch)
            q == WavStored(i, ch)
            sc == IF q < 0 THEN 32768 ELSE 32767
            \* |q / sc - s / Scale| in units of 1 / (sc * Scale)
            dev == IF q * Scale >= s * sc THEN q * Scale - s * sc
                                          ELSE s * sc - q * Scale
        IN /\ (s >= 0 - Scale /\ s <= Scale) =>
                /\ s < 0 => q <= 0
                /\ s > 0 => q >= 0
                /\ dev * 32767 <= sc * Scale
           /\ s > Scale => q * Scale = sc * Scale
           /\ s < 0 - Scale => q * Scale = 0 - sc * Scale

\* an encoded buffer holds a sample in [-1, 1] that is not stored exactly, a
\* sample above 1 and a sample below -1
C12_Witness ==
  /\ wav.done
  /\ \E i \in 0..(wav.buffer.length - 1), ch \in 0..(wav.buffer.numberOfChannels - 1) :
       /\ WavSample(i, ch) \in (1 - Scale)..(Scale - 1)
       /\ WavStored(i, ch) * Scale # WavSample(i, ch) *
            (IF WavSample(i, ch) < 0 THEN 32768 ELSE 32767)
  /\ \E i \in 0..(wav.buffer.length - 1), ch \in 0..(wav.buffer.numberOfChannels - 1) :
       WavSample(i, ch) > Scale
  /\ \E i \in 0..(wav.buffer.length - 1), ch \in 0..(wav.buffer.numberOfChannels - 1) :
       WavSample(i, ch) < 0 - Scale

\* =============================================== claims on extractWaveformPeaks
PeakLength == peaks.buffer.length
PeakWidth == IF peaks.numBuckets = 0 THEN 0 ELSE PeakLength \div peaks.numBuckets
\* the samples of channel 0 at the indices of bucket i (0-based)
PeakWindow(i) ==
  {peaks.buffer.data[1][j + 1] :
     j \in {k \in 0..(PeakLength - 1) : i * PeakWidth <= k /\ k < (i + 1) * PeakWidth}}
SetMax(S) == CHOOSE x \in S : \A y \in S : y <= x
SetMin(S) == CHOOSE x \in S : \A y \in S : x <= y

\* C13: for every bucket count N (below, equal to or above the sample count) the
\* two sequences have length exactly N, and positive[i] >= negative[i] for every
\* bucket whose window is not empty.
C13_PeakShape ==
  peaks.done =>
    /\ Len(peaks.positive) = peaks.numBuckets
    /\ Len(peaks.negative) = peaks.numBuckets
    /\ \A i \in 0..(peaks.numBuckets - 1) :
         PeakWindow(i) # {} => peaks.positive[i + 1] >= peaks.negative[i + 1]

\* three samples shared out over two buckets, the first one with a sample
C13_Witness ==
  /\ peaks.done
  /\ PeakLength = 3
  /\ peaks.numBuckets = 2
  /\ PeakWindow(0) # {}
  /\ peaks.positive[1] >= peaks.negative[1]

\* C14: with w = floor(length / N) >= 1, positive[i] is the maximum and
\* negative[i] the minimum of the channel-0 samples at [i*w, (i+1)*w), for every
\* sample value, and no sample at index >= N*w is read.
C14_Claim ==
  (peaks.done /\ PeakWidth >= 1) =>
    /\ \A i \in 0..(peaks.numBuckets - 1) :
         /\ peaks.positive[i + 1] = SetMax(PeakWindow(i))
         /\ peaks.negative[i + 1] = SetMin(PeakWindow(i))
    /\ \A j \in peaks.reads : j < peaks.numBuckets * PeakWidth

\* C15: when N is larger than the number of samples every bucket is the
\* sentinel positive = -1, negative = 1; whatever N is, no index outside
\* 0..length-1 is read.
C15_PeakSentinel ==
  peaks.done =>
    /\ peaks.reads \subseteq 0..(PeakLength - 1)
    /\ peaks.numBuckets > PeakLength =>
         /\ Len(peaks.positive) = peaks.numBuckets
         /\ Len(peaks.negative) = peaks.numBuckets
         /\ \A i \in 1..peaks.numBuckets :
              peaks.positive[i] = 0 - Scale /\ peaks.negative[i] = Scale
         /\ peaks.reads = {}

\* more buckets than samples, of a buffer that has samples
C15_Witness ==
  /\ peaks.done
  /\ PeakLength >= 2
  /\ peaks.numBuckets > PeakLength
  /\ peaks.positive[1] = 0 - Scale

\* ================================================ claims on the Opus export
\* the order the types are to be tried in
PreferenceOrder ==
  << "audio/mp4;codecs=opus", "audio/ogg;codecs=opus", "audio/webm;codecs=opus",
     "audio/webm" >>

OpusStarted == opus.format = "opus" /\ opus.pc # "start" /\ opus.pc # "idle"

C17_UnsupportedContainer ==
  (OpusStarted /\ opus.supported = {}) =>
    /\ opus.recorder = "none"
    /\ ~opus.sourceStarted
    /\ ~opus.timer.armed
    /\ opus.recordingDone.status = "pending"
    /\ opus.outcome = BlobRejected("NotSupportedError")
    /\ opus.result.status # "fulfilled"
    /\ opus.pc \in {"closing", "done"}
    /\ opus.pc = "done" =>
         /\ opus.result = BlobRejected("NotSupportedError")
         /\ opus.ctx = "closed"

\* the export on a host without any of the types has rejected
C17_Witness ==
  /\ opus.format = "opus"
  /\ opus.supported = {}
  /\ opus.pc = "done"
  /\ opus.result.status = "rejected"

\* the timer stopped the recorder, and the export then returned what was gathered
OpusRecovered ==
  /\ opus.pc = "done"
  /\ opus.forced
  /\ opus.result = BlobFulfilled(NewBlob(opus.chunks, opus.mimeType))

\* C18: the caller is never left waiting for ever.  The timer does not stop the
\* recorder before buffer.duration + 1 s have passed; once the recording is
\* started the export always settles; and unless the source ends or the
\* recorder fails, the timer stops the recorder and the export resolves with
\* the blob of the chunks gathered, never with a rejection.
C18_TimeoutRecovers ==
  /\ [](opus.forced => opus.clock >= opus.duration + 1)
  /\ []((opus.pc = "done" /\ opus.format = "opus" /\ opus.supported # {}
           /\ ~opus.errored) =>
          opus.result = BlobFulfilled(NewBlob(opus.chunks, opus.mimeType)))
  /\ (opus.pc = "awaiting") ~> (opus.pc = "done")
  /\ (opus.pc = "awaiting") ~> (opus.ended \/ opus.errored \/ OpusRecovered)

\* the source never ended and the recorder never failed: the timer stopped the
\* recorder and the export returned a blob with data
C18_Witness ==
  /\ OpusRecovered
  /\ ~opus.ended
  /\ ~opus.errored
  /\ opus.duration >= 1
  /\ opus.result.blob.size > 0

\* ================================================ claims on AudioEditorApp
\* C19: at most one source node is playing at any time, and every playing
\* source node is the one held in sourceNodeRef: a preview that was still
\* rendering when Preview was triggered again does not start a source.
C19_Claim ==
  \A id \in 1..Len(app.sources) :
    app.sources[id] = "playing" => app.sourceNodeRef = id

\* the settings of a loaded file are a crop region inside the file
CropRange ==
  app.audioData # 0 =>
    /\ ~app.settings.null
    /\ 0 <= app.settings.cropStart
    /\ app.settings.cropStart < app.settings.cropEnd
    /\ app.settings.cropEnd <= app.audioData

\* a step that moves cropStart ends below the cropEnd it found, a step that
\* moves cropEnd ends above the cropStart it found, and volume and fade
\* updates move neither
CropStep ==
  (app.audioData # 0 /\ app'.audioData # 0) =>
    /\ app'.settings.cropStart # app.settings.cropStart =>
         /\ app'.settings.cropStart < app.settings.cropEnd
         /\ app'.settings.cropEnd = app.settings.cropEnd
    /\ app'.settings.cropEnd # app.settings.cropEnd =>
         /\ app'.settings.cropEnd > app.settings.cropStart
         /\ app'.settings.cropStart = app.settings.cropStart
    /\ (app'.settings.volume # app.settings.volume
           \/ app'.settings.fadeIn # app.settings.fadeIn
           \/ app'.settings.fadeOut # app.settings.fadeOut) =>
         /\ app'.settings.cropStart = app.settings.cropStart
         /\ app'.settings.cropEnd = app.settings.cropEnd

\* C20: once a file of duration D > 0 is loaded, 0 <= cropStart < cropEnd <= D
\* after any sequence of crop, volume and fade updates; a crop-start change is
\* applied only below the current cropEnd and a crop-end change only above the
\* current cropStart.
C20_CropOrdered == []CropRange /\ [][CropStep]_vars

\* both crop sliders were moved inwards, and volume and a fade were changed
C20_Witness ==
  /\ app.audioData # 0
  /\ app.settings.cropStart > 0
  /\ app.settings.cropEnd < app.audioData
  /\ app.settings.cropEnd - app.settings.cropStart = SliderStep
  /\ app.settings.volume # Scale
  /\ app.settings.fadeIn.enabled
  /\ app.settings.fadeIn.curve # "linear"

\* ============================================== claims on the source buffer
\* C21: after any sequence of calls of processAudio, extractWaveformPeaks and
\* audioBufferToWav, failing calls included, the source buffer holds the
\* samples, length, channel count and sample rate it had, and the result of a
\* successful processAudio is a buffer of its own, not the source.
C21_SourceUnchanged ==
  /\ heap.buffers # << >> => heap.buffers[1] = heap.original
  /\ heap.last.fn = "processAudio" =>
       IF heap.last.error = ""
       THEN /\ heap.last.output # heap.last.input
            /\ heap.last.output = Len(heap.buffers)
            /\ heap.last.output > 1
       ELSE heap.last.output = 0

\* a failing processAudio call after a successful one whose result differs
\* from the source
C21_Witness ==
  /\ heap.calls = 2
  /\ Len(heap.buffers) = 2
  /\ heap.buffers[2] # heap.buffers[1]
  /\ heap.last.fn = "processAudio"
  /\ heap.last.error # ""

\* ============================================ more claims on the Opus export
\* C22: a returned container tag is one of wav, ogg, m4a, webm and matches the
\* container: wav for the wav format; for opus the blob has the type that was
\* picked, and the tag is ogg for the OGG candidate, m4a for the MP4 candidate
\* and webm for the two WebM candidates.
C22_ContainerTag ==
  (opus.pc = "done" /\ opus.result.status = "fulfilled") =>
    /\ opus.extension \in {"wav", "ogg", "m4a", "webm"}
    /\ opus.format = "wav" => opus.extension = "wav"
    /\ opus.format = "opus" =>
         /\ opus.result.blob.type = opus.mimeType
         /\ opus.mimeType \in
              {"audio/mp4;codecs=opus", "audio/ogg;codecs=opus",
               "audio/webm;codecs=opus", "audio/webm"}
         /\ opus.mimeType = "audio/ogg;codecs=opus" <=> opus.extension = "ogg"
         /\ opus.mimeType = "audio/mp4;codecs=opus" <=> opus.extension = "m4a"
         /\ opus.mimeType \in {"audio/webm;codecs=opus", "audio/webm"}
              <=> opus.extension = "webm"

\* an Opus export recorded as MP4 has returned
C22_Witness ==
  /\ opus.pc = "done"
  /\ opus.format = "opus"
  /\ opus.result.status = "fulfilled"
  /\ opus.result.blob.type = "audio/mp4;codecs=opus"
  /\ opus.extension = "m4a"

\* C23: OGG is preferred over MP4 over WebM: with both the OGG and the MP4 type
\* supported the OGG type is picked, and a WebM type is picked only when
\* neither OGG nor MP4 is supported.
C23_Claim ==
  OpusStarted =>
    /\ ({"audio/ogg;codecs=opus", "audio/mp4;codecs=opus"} \subseteq opus.supported) =>
         opus.mimeType = "audio/ogg;codecs=opus"
    /\ opus.mimeType \in {"audio/webm;codecs=opus", "audio/webm"} =>
         /\ "audio/ogg;codecs=opus" \notin opus.supported
         /\ "audio/mp4;codecs=opus" \notin opus.supported

\* C24: recorder.stop() is never called on a recorder that is already
\* inactive, in whatever order the source's ended event, the timer and a
\* recorder error come.
C24_Claim == ~opus.stopOnInactive

\* C25: once audioBufferToOpus has returned or thrown, the context is closed
\* and the timer is cancelled, and no timer callback runs afterwards.
C25_Claim ==
  /\ (opus.format = "opus" /\ opus.pc = "done") =>
       /\ opus.ctx = "closed"
       /\ ~opus.timer.armed
  /\ ~opus.lateTimer

\* ============================================ more claims on AudioEditorApp
\* C28: after Reset and until a new file is loaded, audioData and settings are
\* null, playbackPosition is 0, isPlaying is false and no source node plays,
\* also when a preview was still rendering when Reset was pressed.
C28_Claim ==
  app.audioData = 0 =>
    /\ app.settings.null
    /\ app.playbackPosition = 0
    /\ ~app.isPlaying
    /\ \A id \in 1..Len(app.sources) : app.sources[id] # "playing"

\* C29: for every clicked time, after the seek playbackPosition * duration is
\* min(max(time, cropStart), cropEnd) and lies in [cropStart, cropEnd]; with no
\* audio or no settings loaded the seek changes nothing.
C29_SeekClamped ==
  \A time \in SeekTimes :
    LET after == handleSeek(app, time)
    IN IF app.audioData = 0 \/ app.settings.null
       THEN after = app
       ELSE /\ after.playbackPosition =
                 Min(Max(time, app.settings.cropStart), app.settings.cropEnd)
            /\ after.playbackPosition >= app.settings.cropStart
            /\ after.playbackPosition <= app.settings.cropEnd
            /\ after.settings = app.settings
            /\ after.audioData = app.audioData

\* a click right of a crop end that was moved inwards left the position on it,
\* and the crop start was moved inwards too
C29_Witness ==
  /\ app.audioData # 0
  /\ app.settings.cropStart > 0
  /\ app.settings.cropEnd < app.audioData
  /\ app.playbackPosition = app.settings.cropEnd

Loading(a) == a.isOpusLoading \/ a.isWavLoading

\* C26: while isOpusLoading or isWavLoading is true, Export, Export WAV and
\* Reset are disabled; so at most one export is in flight at any time, and from
\* the start of an export to its completion no export is started and the loaded
\* audio is neither reset nor replaced.
C26_ExportExclusive ==
  /\ [](/\ Loading(app) => ~DownloadEnabled(app) /\ ~ResetEnabled(app)
        /\ InFlight(app) # {} => Loading(app)
        /\ Cardinality(InFlight(app)) <= 1
        /\ \A i \in InFlight(app) : app.audioData = app.exports[i].audio)
  /\ [][Loading(app) \/ InFlight(app) # {}
          => /\ app'.audioData = app.audioData
             /\ Len(app'.exports) = Len(app.exports)]_vars

\* a second export is in flight after the first one completed
C26_Witness ==
  /\ Len(app.exports) = 2
  /\ app.exports[1].stage = "done"
  /\ app.exports[2].stage = "exporting"
  /\ Loading(app)

\* C27: the flag of a format is true exactly while an export of that format is
\* between its start and its completion, an export never changes the flag of
\* the other format, and every export that is started comes to clear its flag,
\* by success or by failure, after which the export controls are enabled.
C27_LoadingCleared ==
  /\ [](\A f \in ExportFormats :
          SetLoading(app, f, TRUE) = app
            <=> \E i \in InFlight(app) : app.exports[i].format = f)
  /\ [][\A i \in InFlight(app) :
          app.exports[i].format = "opus"
            => app'.isWavLoading = app.isWavLoading]_vars
  /\ [][\A i \in InFlight(app) :
          app.exports[i].format = "wav"
            => app'.isOpusLoading = app.isOpusLoading]_vars
  /\ (Loading(app) ~> (~Loading(app) /\ DownloadEnabled(app)))

\* one export failed and one succeeded, both flags are clear again
C27_Witness ==
  /\ \E i \in 1..Len(app.exports) : app.exports[i].stage = "failed"
  /\ \E i \in 1..Len(app.exports) : app.exports[i].stage = "done"
  /\ ~Loading(app)
  /\ DownloadEnabled(app)

\* the parts of a formatted text: before the colon and after it
ColonAt == CHOOSE i \in 1..Len(fmt.text) : fmt.text[i] = ":"
MinutesText == SubSeq(fmt.text, 1, ColonAt - 1)
SecondsField == SubSeq(fmt.text, ColonAt + 1, Len(fmt.text))
DigitValue(c) == CHOOSE d \in 0..9 : Digits[d + 1] = c

\* the seconds field read back, in hundredths
FieldHundredths ==
  1000 * DigitValue(SecondsField[1]) + 100 * DigitValue(SecondsField[2])
    + 10 * DigitValue(SecondsField[4]) + DigitValue(SecondsField[5])

MinutesShown == MinutesText = ToDecimal(fmt.seconds \div 60000)

FieldPadded ==
  /\ Len(SecondsField) = 5
  /\ SecondsField[3] = "."
  /\ \A i \in {1, 2, 4, 5} : \E d \in 0..9 : SecondsField[i] = Digits[d + 1]

FieldBelowSixty == FieldHundredths <= 5999

\* the text read as a time is within half a hundredth of the input
DisplayClose ==
  LET shown == 10 * FieldHundredths + 60000 * (fmt.seconds \div 60000)
  IN shown - fmt.seconds <= 5 /\ fmt.seconds - shown <= 5

\* C30: for every non-negative number of seconds the text shows the minutes
\* floor(seconds / 60), then a seconds field of five characters with two
\* decimals that lies between 00.00 and 59.99 (never 60.00), and the time
\* displayed is within the rounding to hundredths of the input.
C30_Claim ==
  fmt.done => MinutesShown /\ FieldPadded /\ FieldBelowSixty /\ DisplayClose

====
